---- MODULE Spec2Model ----
(***************************************************************************)
(* Model of the CHS field-canvassing application: the record store         *)
(* (database/schema.sql), the ViewHomes filter pipeline, the CSV import    *)
(* run and the log-visit form.                                             *)
(*                                                                         *)
(* Text values (addresses, names, dates) are sequences of one-character    *)
(* strings so that toLowerCase, includes and string comparison are         *)
(* computed and not assumed. Identifiers and enumeration values are        *)
(* strings. NULL is the SQL/JS null of identifier-like fields, NullText    *)
(* the null of text fields.                                                *)
(***************************************************************************)
EXTENDS Integers, Sequences, FiniteSets, TLC

NULL == "NULL"
NullText == <<"NULL">>

\* ------------------------------------------------------------------------
\* Bounds of the model
\* ------------------------------------------------------------------------
MaxHomes == 2
MaxRows == 2
MaxFaults == 1
MaxEdits == 2
MaxInflight == 2
MaxLines == 4

\* ------------------------------------------------------------------------
\* Strings
\* ------------------------------------------------------------------------
Chars == {"-", "0", "1", "2", "4", "9", "A", "B", "a", "b", "z"}

\* String.prototype.toLowerCase on one character
lowerChar(c) == CASE c = "A" -> "a" [] c = "B" -> "b" [] OTHER -> c

toLowerCase(s) == [i \in DOMAIN s |-> lowerChar(s[i])]

\* String.prototype.includes
includes(s, q) == \E i \in 1..(Len(s) - Len(q) + 1) : SubSeq(s, i, i + Len(q) - 1) = q

\* UTF-16 code units of the characters used
codeUnit == [c \in Chars |->
               CASE c = "-" -> 45 [] c = "0" -> 48 [] c = "1" -> 49 [] c = "2" -> 50
                 [] c = "4" -> 52 [] c = "9" -> 57 [] c = "A" -> 65 [] c = "B" -> 66
                 [] c = "a" -> 97 [] c = "b" -> 98 [] c = "z" -> 122]

\* collation weights of String.prototype.localeCompare: letters are ordered
\* alphabetically first (primary), lower case before upper case second
primaryWeight == [c \in Chars |-> codeUnit[lowerChar(c)]]
caseWeight == [c \in Chars |-> IF lowerChar(c) = c THEN 0 ELSE 1]

\* lexicographic three-way comparison of two texts by a weight table
RECURSIVE lexCompare(_, _, _)
lexCompare(a, b, w) ==
  IF a = <<>> /\ b = <<>> THEN 0
  ELSE IF a = <<>> THEN -1
  ELSE IF b = <<>> THEN 1
  ELSE IF w[Head(a)] < w[Head(b)] THEN -1
  ELSE IF w[Head(a)] > w[Head(b)] THEN 1
  ELSE lexCompare(Tail(a), Tail(b), w)

\* a >= b and a <= b on JS strings (code unit order)
strGeq(a, b) == lexCompare(a, b, codeUnit) >= 0
strLeq(a, b) == lexCompare(a, b, codeUnit) <= 0

localeCompare(a, b) ==
  LET p == lexCompare(a, b, primaryWeight)
  IN IF p # 0 THEN p ELSE lexCompare(a, b, caseWeight)

digit(c) == codeUnit[c] - 48

\* new Date('yyyy-MM-dd').getTime(), in days and up to a monotone rescaling
getTime(d) ==
  LET y == digit(d[1]) * 1000 + digit(d[2]) * 100 + digit(d[3]) * 10 + digit(d[4])
      m == digit(d[6]) * 10 + digit(d[7])
      dd == digit(d[9]) * 10 + digit(d[10])
  IN (y * 12 + m) * 31 + dd

\* ------------------------------------------------------------------------
\* Values
\* ------------------------------------------------------------------------
VisitResults == {"Not Home", "Scheduled Demo", "DND (Do Not Disturb)",
                 "Already Has System", "Not Interested",
                 "Interested - Call Back", "Sold/Closed"}

Date1 == <<"2", "0", "2", "4", "-", "0", "1", "-", "0", "9">>
Date2 == <<"2", "0", "2", "4", "-", "0", "1", "-", "1", "0">>
Date3 == <<"2", "0", "2", "4", "-", "0", "2", "-", "0", "1">>
Dates == {Date1, Date2, Date3}

\* the value of new Date().toISOString().split('T')[0] during the run
Today == Date3

CityIds == {"c1", "c2"}
SubdivisionIds == {"s1", "s2"}

NameAb == <<"A", "b">>
NameBa == <<"b", "a">>

Addr1 == <<"1">>
Addr2 == <<"2">>
Addr1a == <<"1", "a">>
Street1 == <<"a", "b">>
StreetB == <<"B">>

Range(s) == {s[i] : i \in DOMAIN s}

RECURSIVE reverse(_)
reverse(s) == IF s = <<>> THEN <<>> ELSE Append(reverse(Tail(s)), Head(s))

\* ------------------------------------------------------------------------
\* State
\* ------------------------------------------------------------------------
VARIABLES
  \* the record store (database/schema.sql)
  dbCities,          \* set of [id, name]
  dbSubdivisions,    \* set of [id, name, city_id]
  dbHomes,           \* sequence of home rows in creation order
  dbIds,             \* number of city and subdivision ids generated
  \* ViewHomes component state
  vhHomes, vhFilteredHomes, vhIsLoading, vhError, vhFetch,
  cityFilter, resultFilter, searchQuery, startDate, endDate, sortBy,
  \* ImportHomes component state and the locals of a running importHomes
  parsedHomes, isImporting, impError, importResults, impRedirect,
  impPc, cityMap, subdivisionMap, successCount, failedCount, impIdx,
  impInflight,       \* insert requests of the import awaiting their response
  \* history of the current import run
  impLog,            \* the outcome of each row processed so far
  impStartLen,       \* number of stored homes when the run started
  \* the environment
  faultsLeft,        \* store requests that may still fail for an outside reason
  editsLeft,         \* form edits the user may still make
  \* LogVisit component state (the schema-validated form)
  form,              \* the values held by useForm
  lvErrors,          \* formState.errors: the fields with a message
  lvSubmitted,       \* formState.isSubmitted
  lvIsSubmitting, lvError, lvSuccess, location, duplicateWarning,
  dupTimer,          \* pending debounce timers, each with the pair it captured
  dupLookups,        \* duplicate lookups awaiting their response
  lvPc, lvData, lvCoords,   \* a running onSubmit: position, data, coords
  lvInflight,        \* insert requests of onSubmit awaiting their response
  lvRedirect,        \* redirect timers scheduled
  \* LogVisit component state (the earlier form of pages/LogVisit.tsx)
  formData, lgLoading, lgError, lgSuccess, lgInflight,
  \* ManageLocations component state
  mlCities, mlSubdivisions,   \* the lists shown, ordered by name
  deleteConfirm,     \* the row of the confirmation dialog, if open
  mlInflight,        \* requests of the screen awaiting their response
  selectedCityIdForSubdivision,  \* the city chosen for a new subdivision, "" for none
  \* files
  download,          \* the text of the last export, if any
  file,              \* the text of the file selected in ImportHomes, if any
  \* the application
  route,             \* the path whose page the router mounts
  config,            \* import.meta.env: which variables are set
  lookup,            \* the last call of a location lookup and its outcome
  \* Dashboard: the daily notes
  dbNotes,           \* the rows of admin_notes
  adminNotes,        \* notes of the Dashboard: the notes shown, newest first
  noteInflight       \* note requests awaiting their response

dbVars == <<dbCities, dbSubdivisions, dbHomes, dbIds>>
vhVars == <<vhHomes, vhFilteredHomes, vhIsLoading, vhError, vhFetch,
            cityFilter, resultFilter, searchQuery, startDate, endDate, sortBy>>
impVars == <<parsedHomes, isImporting, impError, importResults, impRedirect,
             impPc, cityMap, subdivisionMap, successCount, failedCount, impIdx,
             impInflight, impLog, impStartLen>>
lvVars == <<form, lvErrors, lvSubmitted, lvIsSubmitting, lvError, lvSuccess, location,
            duplicateWarning, dupTimer, dupLookups, lvPc, lvData, lvCoords, lvInflight,
            lvRedirect>>
lgVars == <<formData, lgLoading, lgError, lgSuccess, lgInflight>>
mlVars == <<mlCities, mlSubdivisions, deleteConfirm, mlInflight, selectedCityIdForSubdivision>>
csvVars == <<download, file>>
appVars == <<route, config, lookup>>
dashVars == <<dbNotes, adminNotes, noteInflight>>
envVars == <<faultsLeft, editsLeft>>
vars == <<dbVars, vhVars, impVars, lvVars, lgVars, mlVars, csvVars, envVars, appVars,
          dashVars>>

\* what the actions of one screen leave alone
vhOthers == <<dbVars, impVars, lvVars, lgVars, mlVars, csvVars, envVars, appVars, dashVars>>
impOthers == <<vhVars, lvVars, lgVars, mlVars, csvVars, editsLeft, appVars, dashVars>>
lvOthers == <<vhVars, impVars, lgVars, mlVars, csvVars, appVars, dashVars>>
lgOthers == <<vhVars, impVars, lvVars, mlVars, csvVars, appVars, dashVars>>
mlOthers == <<vhVars, impVars, lvVars, lgVars, csvVars, appVars, dashVars>>

\* ------------------------------------------------------------------------
\* Record store: rows of the homes table
\* ------------------------------------------------------------------------
homeRow(address, street_name, city_id, result, contact_name, date_visited) ==
  [address |-> address, street_name |-> street_name, city_id |-> city_id,
   subdivision_id |-> NULL, result |-> result, contact_name |-> contact_name,
   phone_number |-> NullText, follow_up_date |-> NullText, notes |-> NullText,
   date_visited |-> date_visited, source |-> "manual",
   latitude |-> NULL, longitude |-> NULL, location_pinned_at |-> NULL]

\* cities (id, name) joined to a home: the name, or null without a city
cityNameOf(city_id) ==
  IF \E c \in dbCities : c.id = city_id
  THEN (CHOOSE c \in dbCities : c.id = city_id).name
  ELSE NullText

\* subdivisions (id, name) joined to a home
subdivisionNameOf(subdivision_id) ==
  IF \E sd \in dbSubdivisions : sd.id = subdivision_id
  THEN (CHOOSE sd \in dbSubdivisions : sd.id = subdivision_id).name
  ELSE NullText

\* ------------------------------------------------------------------------
\* ViewHomes
\* ------------------------------------------------------------------------
SortOptions == {"date_visited_desc", "date_visited_asc", "address_asc",
                "address_desc", "city_asc", "city_desc"}

\* home.cities?.name || ''
cityNameOrEmpty(h) == IF h.cities_name = NullText THEN <<>> ELSE h.cities_name

compareHomesDescAsAsc(sb, a, b) ==
  CASE sb = "date_visited_desc" -> getTime(b.date_visited) - getTime(a.date_visited)
    [] sb = "date_visited_asc" -> getTime(a.date_visited) - getTime(b.date_visited)
    [] sb \in {"address_asc", "address_desc"} -> localeCompare(a.address, b.address)
    [] sb = "city_asc" -> localeCompare(cityNameOrEmpty(a), cityNameOrEmpty(b))
    [] sb = "city_desc" -> localeCompare(cityNameOrEmpty(b), cityNameOrEmpty(a))
    [] OTHER -> 0

\* the comparator of each case of the sort switch
compareHomes(sb, a, b) ==
  CASE sb = "date_visited_desc" -> getTime(b.date_visited) - getTime(a.date_visited)
    [] sb = "date_visited_asc" -> getTime(a.date_visited) - getTime(b.date_visited)
    [] sb = "address_asc" -> localeCompare(a.address, b.address)
    [] sb = "address_desc" -> localeCompare(b.address, a.address)
    [] sb = "city_asc" -> localeCompare(cityNameOrEmpty(a), cityNameOrEmpty(b))
    [] sb = "city_desc" -> localeCompare(cityNameOrEmpty(b), cityNameOrEmpty(a))
    [] OTHER -> 0

\* Array.prototype.sort is stable: an element goes after every element that
\* does not compare greater than it
RECURSIVE insertSorted(_, _, _)
insertSorted(sorted, x, sb) ==
  IF sorted = <<>> THEN <<x>>
  ELSE LET last == sorted[Len(sorted)]
       IN IF compareHomes(sb, last, x) > 0
          THEN Append(insertSorted(SubSeq(sorted, 1, Len(sorted) - 1), x, sb), last)
          ELSE Append(sorted, x)

RECURSIVE sortHomes(_, _)
sortHomes(list, sb) ==
  IF list = <<>> THEN <<>>
  ELSE insertSorted(sortHomes(SubSeq(list, 1, Len(list) - 1), sb), list[Len(list)], sb)

cityMatches(home, cf) == home.cities_name = cf

resultMatches(home, rf) == home.result = rf

\* (variant: the search looks at the address only)
searchMatchesAddressOnly(home, sq) ==
  includes(toLowerCase(home.address), toLowerCase(sq))

searchMatches(home, sq) ==
  LET query == toLowerCase(sq)
  IN \/ includes(toLowerCase(home.address), query)
     \/ includes(toLowerCase(home.street_name), query)
     \/ /\ home.contact_name # NullText
        /\ includes(toLowerCase(home.contact_name), query)

startMatchesSkipped(home, sd) == TRUE

startMatches(home, sd) == strGeq(home.date_visited, sd)

endMatchesInverted(home, ed) == strGeq(home.date_visited, ed)

endMatches(home, ed) == strLeq(home.date_visited, ed)

\* the "Apply filters" effect
applyFilters(list, cf, rf, sq, sd, ed, sb) ==
  LET byCity(h) == cityMatches(h, cf)
      byResult(h) == resultMatches(h, rf)
      bySearch(h) == searchMatches(h, sq)
      byStart(h) == startMatches(h, sd)
      byEnd(h) == endMatches(h, ed)
      f1 == IF cf # <<>> THEN SelectSeq(list, byCity) ELSE list
      f2 == IF rf # "" THEN SelectSeq(f1, byResult) ELSE f1
      f3 == IF sq # <<>> THEN SelectSeq(f2, bySearch) ELSE f2
      f4 == IF sd # <<>> THEN SelectSeq(f3, byStart) ELSE f3
      f5 == IF ed # <<>> THEN SelectSeq(f4, byEnd) ELSE f4
  IN sortHomes(f5, sb)

\* the effect runs after every render in which a dependency changed
FilterEffect ==
  vhFilteredHomes' = applyFilters(vhHomes', cityFilter', resultFilter',
                                  searchQuery', startDate', endDate', sortBy')

\* select('*, cities (id, name), subdivisions (id, name)')
\*   .order('date_visited', desc).order('created_at', desc)
selectHomes ==
  LET joined == [i \in DOMAIN dbHomes |->
                   dbHomes[i] @@ ("id" :> i)
                     @@ ("cities_name" :> cityNameOf(dbHomes[i].city_id))
                     @@ ("subdivisions_name" :> subdivisionNameOf(dbHomes[i].subdivision_id))]
  IN sortHomes(reverse(joined), "date_visited_desc")

\* the component mounts: state is the useState defaults and fetchHomes starts
VhMount ==
  /\ vhFetch = "none"
  /\ vhHomes' = <<>>
  /\ vhIsLoading' = TRUE
  /\ vhError' = NULL
  /\ vhFetch' = "pending"
  /\ cityFilter' = <<>>
  /\ resultFilter' = ""
  /\ searchQuery' = <<>>
  /\ startDate' = <<>>
  /\ endDate' = <<>>
  /\ sortBy' = "date_visited_desc"
  /\ FilterEffect
  /\ UNCHANGED vhOthers

FetchHomesOk ==
  /\ vhFetch = "pending"
  /\ vhHomes' = selectHomes
  /\ vhError' = NULL
  /\ vhIsLoading' = FALSE
  /\ vhFetch' = "none"
  /\ UNCHANGED <<cityFilter, resultFilter, searchQuery, startDate, endDate, sortBy>>
  /\ FilterEffect
  /\ UNCHANGED vhOthers

FetchHomesFail ==
  /\ vhFetch = "pending"
  /\ vhError' = "Failed to load homes"
  /\ vhIsLoading' = FALSE
  /\ vhFetch' = "none"
  /\ UNCHANGED <<vhHomes, cityFilter, resultFilter, searchQuery, startDate, endDate, sortBy>>
  /\ FilterEffect
  /\ UNCHANGED vhOthers

CityFilterChoices == {<<>>, NameAb, NameBa}
ResultFilterChoices == {"", "Scheduled Demo"}
SearchChoices == {<<>>, <<"a">>, <<"A", "B">>}
StartDateChoices == {<<>>, Date2}
EndDateChoices == {<<>>, Date1, Date2}

SetCityFilter(v) ==
  /\ cityFilter' = v
  /\ UNCHANGED <<vhHomes, vhIsLoading, vhError, vhFetch, resultFilter, searchQuery,
                 startDate, endDate, sortBy>>
  /\ FilterEffect
  /\ UNCHANGED vhOthers

SetResultFilter(v) ==
  /\ resultFilter' = v
  /\ UNCHANGED <<vhHomes, vhIsLoading, vhError, vhFetch, cityFilter, searchQuery,
                 startDate, endDate, sortBy>>
  /\ FilterEffect
  /\ UNCHANGED vhOthers

SetSearchQuery(v) ==
  /\ searchQuery' = v
  /\ UNCHANGED <<vhHomes, vhIsLoading, vhError, vhFetch, cityFilter, resultFilter,
                 startDate, endDate, sortBy>>
  /\ FilterEffect
  /\ UNCHANGED vhOthers

SetStartDate(v) ==
  /\ startDate' = v
  /\ UNCHANGED <<vhHomes, vhIsLoading, vhError, vhFetch, cityFilter, resultFilter,
                 searchQuery, endDate, sortBy>>
  /\ FilterEffect
  /\ UNCHANGED vhOthers

SetEndDate(v) ==
  /\ endDate' = v
  /\ UNCHANGED <<vhHomes, vhIsLoading, vhError, vhFetch, cityFilter, resultFilter,
                 searchQuery, startDate, sortBy>>
  /\ FilterEffect
  /\ UNCHANGED vhOthers

SetSortBy(v) ==
  /\ sortBy' = v
  /\ UNCHANGED <<vhHomes, vhIsLoading, vhError, vhFetch, cityFilter, resultFilter,
                 searchQuery, startDate, endDate>>
  /\ FilterEffect
  /\ UNCHANGED vhOthers

clearFilters ==
  /\ cityFilter' = <<>>
  /\ resultFilter' = ""
  /\ searchQuery' = <<>>
  /\ startDate' = <<>>
  /\ endDate' = <<>>
  /\ UNCHANGED <<vhHomes, vhIsLoading, vhError, vhFetch, sortBy>>
  /\ FilterEffect
  /\ UNCHANGED vhOthers

\* ------------------------------------------------------------------------
\* Record store: insert into homes
\* ------------------------------------------------------------------------
\* UNIQUE(address, city_id): SQL treats null city_ids as distinct
violatesUnique(data) ==
  /\ data.city_id # NULL
  /\ \E i \in DOMAIN dbHomes :
       dbHomes[i].address = data.address /\ dbHomes[i].city_id = data.city_id

\* REFERENCES cities(id), REFERENCES subdivisions(id)
violatesForeignKey(data) ==
  \/ data.city_id # NULL /\ ~(\E c \in dbCities : c.id = data.city_id)
  \/ data.subdivision_id # NULL /\ ~(\E sd \in dbSubdivisions : sd.id = data.subdivision_id)

\* the error code of insert([data]), NULL when the row is accepted
insertErrorCode(data) ==
  IF violatesUnique(data) THEN "23505"
  ELSE IF violatesForeignKey(data) THEN "23503"
  ELSE NULL

\* ------------------------------------------------------------------------
\* ImportHomes: importHomes
\* ------------------------------------------------------------------------
NoResults == <<>>

ImportedPrefix == "[IMPORTED] "
ImportedDefault == "[IMPORTED] Prospective home to visit"

EmptyMap == [k \in {} |-> NULL]

\* Map.get: the value of the key, or undefined
mapGet(map, key) == IF key \in DOMAIN map THEN map[key] ELSE NULL

\* cities.forEach(city => cityMap.set(city.name.toLowerCase(), city.id)):
\* the rows come in no fixed order and a later row overwrites an earlier one
cityMapsOf(cityRows) ==
  LET keys == {toLowerCase(c.name) : c \in cityRows}
  IN {f \in [keys -> {c.id : c \in cityRows}] :
        \A k \in keys : \E c \in cityRows : toLowerCase(c.name) = k /\ c.id = f[k]}

\* subdivisionMap.set(`${sub.city_id}:${sub.name.toLowerCase()}`, sub.id)
subdivisionKey(city_id, name) == <<city_id, toLowerCase(name)>>

subdivisionMapsOf(subRows) ==
  LET keys == {subdivisionKey(sd.city_id, sd.name) : sd \in subRows}
  IN {f \in [keys -> {sd.id : sd \in subRows}] :
        \A k \in keys : \E sd \in subRows :
           subdivisionKey(sd.city_id, sd.name) = k /\ sd.id = f[k]}

\* cityMap.get(home.city_name.toLowerCase())
resolveCity(home) == mapGet(cityMap, toLowerCase(home.city_name))

\* (variant: the subdivision is looked up by its name alone)
resolveSubdivisionByName(home, cityId) ==
  LET named == {k \in DOMAIN subdivisionMap : k[2] = toLowerCase(home.subdivision_name)}
  IN IF home.subdivision_name # NullText /\ home.subdivision_name # <<>> /\ named # {}
     THEN subdivisionMap[CHOOSE k \in named : TRUE]
     ELSE NULL

\* subdivisionMap.get(`${cityId}:${home.subdivision_name.toLowerCase()}`)
resolveSubdivision(home, cityId) ==
  IF home.subdivision_name # NullText /\ home.subdivision_name # <<>>
  THEN mapGet(subdivisionMap, subdivisionKey(cityId, home.subdivision_name))
  ELSE NULL

importHomeData(home, cityId) ==
  [address |-> home.address,
   street_name |-> IF home.street_name # <<>> THEN home.street_name ELSE home.address,
   city_id |-> cityId,
   subdivision_id |-> resolveSubdivision(home, cityId),
   result |-> "Not Home",
   contact_name |-> NullText, phone_number |-> NullText, follow_up_date |-> NullText,
   notes |-> IF home.notes # NullText /\ home.notes # <<>>
             THEN <<ImportedPrefix>> \o home.notes
             ELSE <<ImportedDefault>>,
   date_visited |-> Today,
   source |-> "manual",
   latitude |-> NULL, longitude |-> NULL, location_pinned_at |-> NULL]

\* the Import button is disabled while isImporting
importDisabled == isImporting

\* importHomes up to the first await
ImportStart ==
  /\ ~importDisabled
  /\ impPc = "idle"
  /\ parsedHomes # <<>>
  /\ isImporting' = TRUE
  /\ impError' = NULL
  /\ impPc' = "getUser"
  /\ impLog' = <<>>
  /\ impStartLen' = Len(dbHomes)
  /\ UNCHANGED <<parsedHomes, importResults, impRedirect, cityMap, subdivisionMap,
                 successCount, failedCount, impIdx, impInflight>>
  /\ UNCHANGED <<dbVars, impOthers, faultsLeft>>

\* await supabase.auth.getUser(), then the cities request is sent
ImportGetUser ==
  /\ impPc = "getUser"
  /\ impPc' = "cities"
  /\ UNCHANGED <<parsedHomes, isImporting, impError, importResults, impRedirect, cityMap,
                 subdivisionMap, successCount, failedCount, impIdx, impInflight,
                 impLog, impStartLen>>
  /\ UNCHANGED <<dbVars, impOthers, faultsLeft>>

\* (variant: the failed request is sent again)
importAbortRetry(message) ==
  /\ impError' = message
  /\ impPc' = "cities"
  /\ UNCHANGED <<parsedHomes, isImporting, importResults, impRedirect, cityMap,
                 subdivisionMap, successCount, failedCount, impIdx, impInflight, impLog,
                 impStartLen>>

\* (variant: without the finally block)
importAbortStillImporting(message) ==
  /\ impError' = message
  /\ impPc' = "idle"
  /\ UNCHANGED <<parsedHomes, isImporting, importResults, impRedirect, cityMap,
                 subdivisionMap, successCount, failedCount, impIdx, impInflight, impLog,
                 impStartLen>>

\* the catch and finally blocks of importHomes
importAbort(message) ==
  /\ impError' = message
  /\ isImporting' = FALSE
  /\ impPc' = "idle"
  /\ UNCHANGED <<parsedHomes, importResults, impRedirect, cityMap, subdivisionMap,
                 successCount, failedCount, impIdx, impInflight, impLog, impStartLen>>

ImportCitiesOk ==
  /\ impPc = "cities"
  /\ cityMap' \in cityMapsOf(dbCities)
  /\ impPc' = "subdivisions"
  /\ UNCHANGED <<parsedHomes, isImporting, impError, importResults, impRedirect,
                 subdivisionMap, successCount, failedCount, impIdx, impInflight,
                 impLog, impStartLen>>
  /\ UNCHANGED <<dbVars, impOthers, faultsLeft>>

ImportCitiesFail ==
  /\ impPc = "cities"
  /\ faultsLeft > 0
  /\ faultsLeft' = faultsLeft - 1
  /\ importAbort("Failed to import homes")
  /\ UNCHANGED <<dbVars, impOthers>>

\* the subdivisions arrive; the loop starts with zeroed counters
ImportSubdivisionsOk ==
  /\ impPc = "subdivisions"
  /\ subdivisionMap' \in subdivisionMapsOf(dbSubdivisions)
  /\ successCount' = 0
  /\ failedCount' = 0
  /\ impIdx' = 1
  /\ impPc' = "loop"
  /\ UNCHANGED <<parsedHomes, isImporting, impError, importResults, impRedirect, cityMap,
                 impInflight, impLog, impStartLen>>
  /\ UNCHANGED <<dbVars, impOthers, faultsLeft>>

ImportSubdivisionsFail ==
  /\ impPc = "subdivisions"
  /\ faultsLeft > 0
  /\ faultsLeft' = faultsLeft - 1
  /\ importAbort("Failed to import homes")
  /\ UNCHANGED <<dbVars, impOthers>>

\* (variant: the request is sent without awaiting its response)
afterSendNoAwait(idx) == [pc |-> "loop", idx |-> idx + 1]

\* where the loop goes once the insert request of a row is sent: the code
\* awaits the response before it touches the next row
afterSend(idx) == [pc |-> "await", idx |-> idx]

\* (variant: a row without city is not skipped)
cityMissingNever(cityId) == FALSE

\* if (!cityId)
cityMissing(cityId) == cityId = NULL

\* one iteration up to its continue or its await
ImportRow ==
  /\ impPc = "loop"
  /\ impIdx <= Len(parsedHomes)
  /\ LET home == parsedHomes[impIdx]
         cityId == resolveCity(home)
     IN IF cityMissing(cityId)
        THEN /\ failedCount' = failedCount + 1
             /\ impIdx' = impIdx + 1
             /\ impLog' = Append(impLog, "nocity")
             /\ UNCHANGED <<impPc, impInflight, successCount>>
        ELSE /\ impInflight' = impInflight \cup
                                 {[row |-> impIdx, data |-> importHomeData(home, cityId)]}
             /\ impPc' = afterSend(impIdx).pc
             /\ impIdx' = afterSend(impIdx).idx
             /\ UNCHANGED <<failedCount, successCount, impLog>>
  /\ UNCHANGED <<parsedHomes, isImporting, impError, importResults, impRedirect, cityMap,
                 subdivisionMap, impStartLen>>
  /\ UNCHANGED <<dbVars, impOthers, faultsLeft>>

\* (variant: a duplicate is skipped without being counted)
afterInsertSkipDuplicate(code) ==
  IF code = "23505"
  THEN [success |-> successCount, failed |-> failedCount, error |-> impError,
        outcome |-> "duplicate"]
  ELSE IF code # NULL
  THEN [success |-> successCount, failed |-> failedCount + 1, error |-> impError,
        outcome |-> "error"]
  ELSE [success |-> successCount + 1, failed |-> failedCount, error |-> impError,
        outcome |-> "ok"]

\* (variant: any insert error is reported as the import's error)
afterInsertFatal(code) ==
  IF code # NULL
  THEN [success |-> successCount, failed |-> failedCount + 1,
        error |-> "Failed to import homes",
        outcome |-> IF code = "23505" THEN "duplicate" ELSE "error"]
  ELSE [success |-> successCount + 1, failed |-> failedCount, error |-> impError,
        outcome |-> "ok"]

\* what the loop does with the response of an insert
afterInsert(code) ==
  IF code # NULL
  THEN [success |-> successCount, failed |-> failedCount + 1, error |-> impError,
        outcome |-> IF code = "23505" THEN "duplicate" ELSE "error"]
  ELSE [success |-> successCount + 1, failed |-> failedCount, error |-> impError,
        outcome |-> "ok"]

\* the store answers an insert request of the import
importResponse(req, code) ==
  /\ impInflight' = impInflight \ {req}
  /\ dbHomes' = IF code = NULL THEN Append(dbHomes, req.data) ELSE dbHomes
  /\ successCount' = afterInsert(code).success
  /\ failedCount' = afterInsert(code).failed
  /\ impError' = afterInsert(code).error
  /\ impLog' = Append(impLog, afterInsert(code).outcome)
  /\ impIdx' = IF impPc = "await" THEN impIdx + 1 ELSE impIdx
  /\ impPc' = "loop"
  /\ UNCHANGED <<parsedHomes, isImporting, importResults, impRedirect, cityMap,
                 subdivisionMap, impStartLen>>
  /\ UNCHANGED <<dbCities, dbSubdivisions, dbIds, impOthers>>

ImportInsertResponse ==
  \E req \in impInflight :
    /\ importResponse(req, insertErrorCode(req.data))
    /\ UNCHANGED faultsLeft

\* the insert fails for a reason other than a constraint
ImportInsertFault ==
  \E req \in impInflight :
    /\ faultsLeft > 0
    /\ faultsLeft' = faultsLeft - 1
    /\ importResponse(req, "NETWORK")

\* after the last row: setImportResults, the redirect timer, finally
ImportFinish ==
  /\ impPc = "loop"
  /\ impIdx > Len(parsedHomes)
  /\ impInflight = {}
  /\ importResults' = <<[success |-> successCount, failed |-> failedCount]>>
  /\ impRedirect' = (impRedirect \/ successCount > 0)
  /\ isImporting' = FALSE
  /\ impPc' = "idle"
  /\ UNCHANGED <<parsedHomes, impError, cityMap, subdivisionMap, successCount,
                 failedCount, impIdx, impInflight, impLog, impStartLen>>
  /\ UNCHANGED <<dbVars, impOthers, faultsLeft>>

\* the state of the ImportHomes screen with a parsed file and no run yet
importReady(rows) ==
  /\ parsedHomes = rows
  /\ isImporting = FALSE
  /\ impError = NULL
  /\ importResults = NoResults
  /\ impRedirect = FALSE
  /\ impPc = "idle"
  /\ cityMap = EmptyMap
  /\ subdivisionMap = EmptyMap
  /\ successCount = 0
  /\ failedCount = 0
  /\ impIdx = 1
  /\ impInflight = {}
  /\ impLog = <<>>
  /\ impStartLen = 0

\* ------------------------------------------------------------------------
\* LogVisit: the schema-validated form
\* ------------------------------------------------------------------------
EmptyForm ==
  [city_id |-> "", subdivision_id |-> "", street_name |-> <<>>, address |-> <<>>,
   result |-> "", contact_name |-> <<>>, phone_number |-> <<>>,
   follow_up_date |-> <<>>, notes |-> <<>>]

ContactFields == {"contact_name", "phone_number", "follow_up_date"}

\* logVisitSchema: the rule of each field
fieldValid(f, v) ==
  CASE f = "city_id" -> v # ""
    [] f = "street_name" -> v # <<>>
    [] f = "address" -> v # <<>>
    [] f = "result" -> v \in VisitResults
    [] OTHER -> TRUE

\* the fields the zodResolver reports an error for
schemaErrors(data) == {f \in DOMAIN data : ~fieldValid(f, data[f])}

shouldShowContactFields ==
  form.result = "Scheduled Demo" \/ form.result = "Interested - Call Back"

\* value || null
textOrNull(v) == IF v # <<>> THEN v ELSE NullText
idOrNull(v) == IF v # "" THEN v ELSE NULL

\* the positions a lookup can answer with, each a { lat, lng } whose numbers
\* are written as texts: where the device is, where the address is, and the
\* position (0, 0) a device without a fix reports
Positions ==
  [pinned |-> [lat |-> "29.7604", lng |-> "-95.3698"],
   geocoded |-> [lat |-> "29.76", lng |-> "-95.37"],
   nullIsland |-> [lat |-> "0", lng |-> "0"]]

\* n || null on a number: 0 is falsy
numberOrNull(n) == IF n = "0" THEN NULL ELSE n

\* coords?.lat || null, coords?.lng || null
latitudeOf(coords) == IF coords = NULL THEN NULL ELSE numberOrNull(Positions[coords].lat)
longitudeOf(coords) == IF coords = NULL THEN NULL ELSE numberOrNull(Positions[coords].lng)

\* new Date().toISOString() during the run
Now == "2024-02-01T10:00:00.000Z"

\* homeData of onSubmit; date_visited is the column default CURRENT_DATE
logHomeData(data, coords) ==
  [city_id |-> data.city_id,
   subdivision_id |-> idOrNull(data.subdivision_id),
   street_name |-> data.street_name,
   address |-> data.address,
   result |-> data.result,
   contact_name |-> textOrNull(data.contact_name),
   phone_number |-> textOrNull(data.phone_number),
   follow_up_date |-> textOrNull(data.follow_up_date),
   notes |-> textOrNull(data.notes),
   date_visited |-> Today,
   source |-> "manual",
   latitude |-> latitudeOf(coords),
   longitude |-> longitudeOf(coords),
   location_pinned_at |-> IF coords # NULL THEN Now ELSE NULL]

warningTextNoDate(existingHome) ==
  <<"This address was already logged">>
    \o (IF existingHome.result # NULL
        THEN <<" (", existingHome.result, ")">>
        ELSE <<>>)

\* the template literal of setDuplicateWarning
warningText(existingHome) ==
  <<"This address was already logged on ">> \o existingHome.date_visited
    \o (IF existingHome.result # NULL
        THEN <<" (", existingHome.result, ")">>
        ELSE <<>>)

watchedPair(f) == [address |-> f.address, city_id |-> f.city_id]

\* (variant: without the cleanup)
scheduleTimerKeep(timers, pair) == timers \cup {pair}

\* the effect's cleanup clears the timer of the previous render, then
\* setTimeout(checkDuplicate, 500)
scheduleTimer(timers, pair) == {pair}

\* the checkDuplicate effect runs when watchedAddress or watchedCity changed
DupEffect ==
  dupTimer' = IF watchedPair(form') # watchedPair(form)
              THEN scheduleTimer(dupTimer, watchedPair(form'))
              ELSE dupTimer

\* formState.errors after a change of field f: fields are re-validated on
\* change once the form has been submitted
errorsAfterChange(f, v) ==
  IF lvSubmitted
  THEN (lvErrors \ {f}) \cup (IF fieldValid(f, v) THEN {} ELSE {f})
  ELSE lvErrors

valuesAfterChangeUnregister(values, f, v) ==
  IF f = "result" /\ v \notin {"Scheduled Demo", "Interested - Call Back"}
  THEN [values EXCEPT ![f] = v, !.contact_name = <<>>, !.phone_number = <<>>,
                      !.follow_up_date = <<>>]
  ELSE [values EXCEPT ![f] = v]

\* the values of useForm after an input changed: with the default options
\* the value of an input that is no longer rendered is kept
valuesAfterChange(values, f, v) == [values EXCEPT ![f] = v]

\* (variant: a change aborts the lookups already sent)
lookupsAfterChangeAbort(lookups) == {}

\* the cleanup of the effect clears the timer only: a lookup already sent
\* is still answered
lookupsAfterChange(lookups) == lookups

\* the user changes a field; the contact inputs exist only while shown
SetField(f, v) ==
  /\ editsLeft > 0
  /\ form[f] # v
  /\ f \in ContactFields => shouldShowContactFields
  /\ editsLeft' = editsLeft - 1
  /\ form' = valuesAfterChange(form, f, v)
  /\ lvErrors' = errorsAfterChange(f, v)
  /\ DupEffect
  /\ dupLookups' = lookupsAfterChange(dupLookups)
  /\ UNCHANGED <<lvSubmitted, lvIsSubmitting, lvError, lvSuccess, location,
                 duplicateWarning, lvPc, lvData, lvCoords, lvInflight, lvRedirect>>
  /\ UNCHANGED <<dbVars, lvOthers, faultsLeft>>

\* the debounce delay of a timer has passed: checkDuplicate up to its await
DupTimerFire ==
  \E t \in dupTimer :
    /\ dupTimer' = dupTimer \ {t}
    /\ IF t.address = <<>> \/ t.city_id = ""
       THEN /\ duplicateWarning' = NullText
            /\ UNCHANGED dupLookups
       ELSE /\ dupLookups' = dupLookups \cup {t}
            /\ UNCHANGED duplicateWarning
    /\ UNCHANGED <<form, lvErrors, lvSubmitted, lvIsSubmitting, lvError, lvSuccess,
                   location, lvPc, lvData, lvCoords, lvInflight, lvRedirect>>
    /\ UNCHANGED <<dbVars, lvOthers, envVars>>

\* select('id, address, date_visited, result').eq('address', ..).eq('city_id', ..)
lookupMatches(q) ==
  {i \in DOMAIN dbHomes :
     dbHomes[i].address = q.address /\ dbHomes[i].city_id = q.city_id}

\* what checkDuplicate does with a successful response
warningAfterLookup(data) ==
  IF data # <<>> THEN warningText(data[1]) ELSE NullText

\* the response of a lookup arrives: .limit(1) keeps any one match
DupLookupResponse ==
  \E q \in dupLookups :
    /\ dupLookups' = dupLookups \ {q}
    /\ \E data \in {<<dbHomes[i]>> : i \in lookupMatches(q)}
                     \cup (IF lookupMatches(q) = {} THEN {<<>>} ELSE {}) :
         duplicateWarning' = warningAfterLookup(data)
    /\ UNCHANGED <<form, lvErrors, lvSubmitted, lvIsSubmitting, lvError, lvSuccess,
                   location, dupTimer, lvPc, lvData, lvCoords, lvInflight, lvRedirect>>
    /\ UNCHANGED <<dbVars, lvOthers, envVars>>

\* the lookup fails: the error is logged, the warning stays as it is
DupLookupFault ==
  \E q \in dupLookups :
    /\ faultsLeft > 0
    /\ faultsLeft' = faultsLeft - 1
    /\ dupLookups' = dupLookups \ {q}
    /\ UNCHANGED <<form, lvErrors, lvSubmitted, lvIsSubmitting, lvError, lvSuccess,
                   location, duplicateWarning, dupTimer, lvPc, lvData, lvCoords,
                   lvInflight, lvRedirect>>
    /\ UNCHANGED <<dbVars, lvOthers, editsLeft>>

submitDisabledOnWarning == lvIsSubmitting \/ duplicateWarning # NullText

\* the submit button: disabled={isSubmitting}
submitDisabled == lvIsSubmitting

\* handleSubmit(onSubmit): the resolver validates; onSubmit runs up to its
\* first await only when there is no error
LvSubmit ==
  /\ ~submitDisabled
  /\ lvPc = "idle"
  /\ lvSubmitted' = TRUE
  /\ lvErrors' = schemaErrors(form)
  /\ IF schemaErrors(form) = {}
     THEN /\ lvIsSubmitting' = TRUE
          /\ lvError' = NULL
          /\ lvSuccess' = FALSE
          /\ lvData' = form
          /\ lvPc' = "getUser"
     ELSE UNCHANGED <<lvIsSubmitting, lvError, lvSuccess, lvData, lvPc>>
  /\ UNCHANGED <<form, location, duplicateWarning, dupTimer, dupLookups, lvCoords,
                 lvInflight, lvRedirect>>
  /\ UNCHANGED <<dbVars, lvOthers, envVars>>

\* getUser has answered: coords = location, the geocoder is asked when no
\* location is pinned, otherwise the insert request is sent
LvGetUser ==
  /\ lvPc = "getUser"
  /\ lvCoords' = location
  /\ IF location = NULL /\ lvData.address # <<>> /\ lvData.street_name # <<>>
     THEN /\ lvPc' = "geocode"
          /\ UNCHANGED lvInflight
     ELSE /\ lvPc' = "insert"
          /\ lvInflight' = lvInflight \cup {logHomeData(lvData, location)}
  /\ UNCHANGED <<form, lvErrors, lvSubmitted, lvIsSubmitting, lvError, lvSuccess,
                 location, duplicateWarning, dupTimer, dupLookups, lvData, lvRedirect>>
  /\ UNCHANGED <<dbVars, lvOthers, envVars>>

\* geocodeAddress resolves, to coordinates or to null; the insert is sent
LvGeocode ==
  /\ lvPc = "geocode"
  /\ \E coords \in {NULL, "geocoded"} :
       /\ lvCoords' = coords
       /\ lvInflight' = lvInflight \cup {logHomeData(lvData, coords)}
  /\ lvPc' = "insert"
  /\ UNCHANGED <<form, lvErrors, lvSubmitted, lvIsSubmitting, lvError, lvSuccess,
                 location, duplicateWarning, dupTimer, dupLookups, lvData, lvRedirect>>
  /\ UNCHANGED <<dbVars, lvOthers, envVars>>

\* (variant: the form and the pinned location are cleared in the finally
\* block, after a failure too)
lvResponseResetAlways(req, code) ==
  /\ lvPc = "insert"
  /\ lvInflight' = lvInflight \ {req}
  /\ IF code = NULL
     THEN /\ dbHomes' = Append(dbHomes, req)
          /\ lvSuccess' = TRUE
          /\ lvRedirect' = lvRedirect + 1
          /\ UNCHANGED lvError
     ELSE /\ lvError' = "Failed to log visit"
          /\ UNCHANGED <<dbHomes, lvSuccess, lvRedirect>>
  /\ form' = EmptyForm
  /\ lvErrors' = {}
  /\ lvSubmitted' = FALSE
  /\ location' = NULL
  /\ DupEffect
  /\ lvIsSubmitting' = FALSE
  /\ lvPc' = "idle"
  /\ UNCHANGED <<duplicateWarning, dupLookups, lvData, lvCoords>>
  /\ UNCHANGED <<dbCities, dbSubdivisions, dbIds, lvOthers, editsLeft>>

\* the rest of onSubmit once the insert is answered with error code `code`
lvResponse(req, code) ==
  /\ lvPc = "insert"
  /\ lvInflight' = lvInflight \ {req}
  /\ IF code = NULL
     THEN /\ dbHomes' = Append(dbHomes, req)
          /\ lvSuccess' = TRUE
          /\ form' = EmptyForm
          /\ lvErrors' = {}
          /\ lvSubmitted' = FALSE
          /\ location' = NULL
          /\ lvRedirect' = lvRedirect + 1
          /\ UNCHANGED lvError
     ELSE /\ lvError' = "Failed to log visit"
          /\ UNCHANGED <<dbHomes, lvSuccess, form, lvErrors, lvSubmitted, location,
                         lvRedirect>>
  /\ DupEffect
  /\ lvIsSubmitting' = FALSE
  /\ lvPc' = "idle"
  /\ UNCHANGED <<duplicateWarning, dupLookups, lvData, lvCoords>>
  /\ UNCHANGED <<dbCities, dbSubdivisions, dbIds, lvOthers, editsLeft>>

LvInsertResponse ==
  \E req \in lvInflight :
    /\ lvResponse(req, insertErrorCode(req))
    /\ UNCHANGED faultsLeft

LvInsertFault ==
  \E req \in lvInflight :
    /\ faultsLeft > 0
    /\ faultsLeft' = faultsLeft - 1
    /\ lvResponse(req, "NETWORK")

\* the screen with form values f0 just typed: the debounce timer of the
\* last keystroke is pending and nothing has been submitted
logVisitReady(f0) ==
  /\ form = f0
  /\ lvErrors = {}
  /\ lvSubmitted = FALSE
  /\ lvIsSubmitting = FALSE
  /\ lvError = NULL
  /\ lvSuccess = FALSE
  /\ location = NULL
  /\ duplicateWarning = NullText
  /\ dupTimer = {watchedPair(f0)}
  /\ dupLookups = {}
  /\ lvPc = "idle"
  /\ lvData = EmptyForm
  /\ lvCoords = NULL
  /\ lvInflight = {}
  /\ lvRedirect = 0

\* ------------------------------------------------------------------------
\* LogVisit: the earlier form of pages/LogVisit.tsx
\* ------------------------------------------------------------------------
EmptyFormData ==
  [cityId |-> "", subdivisionId |-> "", streetName |-> <<>>, address |-> <<>>,
   result |-> "", contactName |-> <<>>, phoneNumber |-> <<>>, followUpDate |-> <<>>,
   notes |-> <<>>, dateVisited |-> Today]

\* the "Fetch subdivisions when city changes" effect, its else branch
afterCityChange(fd) ==
  IF fd.cityId = "" THEN [fd EXCEPT !.subdivisionId = ""] ELSE fd

\* fetchSubdivisions(cityId), answered before the user's next edit: the
\* options of the subdivision select
offeredSubdivisions(cityId) == {sd.id : sd \in {x \in dbSubdivisions : x.city_id = cityId}}

\* handleChange; a select takes one of its options
LgChange(f, v) ==
  /\ editsLeft > 0
  /\ formData[f] # v
  /\ f = "subdivisionId" => v \in {""} \cup offeredSubdivisions(formData.cityId)
  /\ editsLeft' = editsLeft - 1
  /\ formData' = IF f = "cityId"
                 THEN afterCityChange([formData EXCEPT ![f] = v])
                 ELSE [formData EXCEPT ![f] = v]
  /\ UNCHANGED <<lgLoading, lgError, lgSuccess, lgInflight>>
  /\ UNCHANGED <<dbVars, lgOthers, faultsLeft>>

\* the inputs marked required: the browser does not fire onSubmit while one
\* of them is empty
requiredInputsFilled == formData.cityId # "" /\ formData.address # <<>> /\ formData.dateVisited # <<>>

\* the check at the head of handleSubmit
legacyFieldsMissing(fd) == fd.cityId = "" \/ fd.address = <<>> \/ fd.dateVisited = <<>>

legacyHomeData(fd) ==
  [city_id |-> idOrNull(fd.cityId),
   subdivision_id |-> idOrNull(fd.subdivisionId),
   street_name |-> fd.streetName,
   address |-> fd.address,
   result |-> idOrNull(fd.result),
   contact_name |-> textOrNull(fd.contactName),
   phone_number |-> textOrNull(fd.phoneNumber),
   follow_up_date |-> textOrNull(fd.followUpDate),
   notes |-> textOrNull(fd.notes),
   date_visited |-> fd.dateVisited,
   source |-> "manual",
   latitude |-> NULL, longitude |-> NULL, location_pinned_at |-> NULL]

\* handleSubmit up to its await
LgSubmit ==
  /\ ~lgLoading
  /\ requiredInputsFilled
  /\ lgSuccess' = FALSE
  /\ IF legacyFieldsMissing(formData)
     THEN /\ lgError' = "Please fill in all required fields"
          /\ UNCHANGED <<lgLoading, lgInflight>>
     ELSE /\ lgError' = ""
          /\ lgLoading' = TRUE
          /\ lgInflight' = lgInflight \cup {legacyHomeData(formData)}
  /\ UNCHANGED formData
  /\ UNCHANGED <<dbVars, lgOthers, envVars>>

\* the CHECK constraint on homes.result
violatesCheck(data) == data.result # NULL /\ data.result \notin VisitResults

lgResponse(req, code) ==
  /\ lgInflight' = lgInflight \ {req}
  /\ IF code = NULL
     THEN /\ dbHomes' = Append(dbHomes, req)
          /\ lgSuccess' = TRUE
          /\ formData' = [EmptyFormData EXCEPT !.cityId = formData.cityId,
                                               !.subdivisionId = formData.subdivisionId]
          /\ UNCHANGED lgError
     ELSE /\ lgError' = "Failed to log visit"
          /\ UNCHANGED <<dbHomes, lgSuccess, formData>>
  /\ lgLoading' = FALSE
  /\ UNCHANGED <<dbCities, dbSubdivisions, dbIds, lgOthers, editsLeft>>

LgInsertResponse ==
  \E req \in lgInflight :
    /\ lgResponse(req, IF violatesCheck(req) THEN "23514" ELSE insertErrorCode(req))
    /\ UNCHANGED faultsLeft

LgInsertFault ==
  \E req \in lgInflight :
    /\ faultsLeft > 0
    /\ faultsLeft' = faultsLeft - 1
    /\ lgResponse(req, "NETWORK")

legacyReady(fd0) ==
  /\ formData = fd0
  /\ lgLoading = FALSE
  /\ lgError = ""
  /\ lgSuccess = FALSE
  /\ lgInflight = {}

\* the ViewHomes screen right after mounting
viewHomesMounted ==
  /\ vhHomes = <<>>
  /\ vhFilteredHomes = <<>>
  /\ vhIsLoading = TRUE
  /\ vhError = NULL
  /\ vhFetch = "pending"
  /\ cityFilter = <<>>
  /\ resultFilter = ""
  /\ searchQuery = <<>>
  /\ startDate = <<>>
  /\ endDate = <<>>
  /\ sortBy = "date_visited_desc"

\* ------------------------------------------------------------------------
\* ManageLocations: the lists and the deletion of cities and subdivisions
\* ------------------------------------------------------------------------
NoConfirm == <<>>

\* .order('name') of a select
RECURSIVE orderByName(_)
orderByName(S) ==
  IF S = {} THEN <<>>
  ELSE LET m == CHOOSE x \in S : \A y \in S : strLeq(x.name, y.name)
       IN <<m>> \o orderByName(S \ {m})

\* the rows a list shows
listedIds(list) == {list[i].id : i \in DOMAIN list}

\* the trash button of a listed row opens the confirmation dialog
MlAskDelete(type, id) ==
  /\ deleteConfirm = NoConfirm
  /\ id \in listedIds(IF type = "city" THEN mlCities ELSE mlSubdivisions)
  /\ deleteConfirm' = <<[type |-> type, id |-> id]>>
  /\ UNCHANGED <<mlCities, mlSubdivisions, mlInflight, selectedCityIdForSubdivision>>
  /\ UNCHANGED <<dbVars, mlOthers, envVars>>

\* the Cancel button of the dialog
MlCancelDelete ==
  /\ deleteConfirm # NoConfirm
  /\ deleteConfirm' = NoConfirm
  /\ UNCHANGED <<mlCities, mlSubdivisions, mlInflight, selectedCityIdForSubdivision>>
  /\ UNCHANGED <<dbVars, mlOthers, envVars>>

\* the Delete button of the dialog: the handler of the confirmed type runs up
\* to its await; it closes over the lists of the render it was created in
\* the requests of the screen awaiting their response stay within the bound
requestSlotFree == Cardinality(mlInflight) < MaxInflight

mlDeleteRequest(type, id) ==
  [type |-> type, id |-> id, cities |-> mlCities, subdivisions |-> mlSubdivisions]

handleDeleteCity ==
  /\ requestSlotFree
  /\ deleteConfirm # NoConfirm
  /\ deleteConfirm[1].type = "city"
  /\ mlInflight' = mlInflight \cup {mlDeleteRequest("city", deleteConfirm[1].id)}
  /\ UNCHANGED <<mlCities, mlSubdivisions, deleteConfirm, selectedCityIdForSubdivision>>
  /\ UNCHANGED <<dbVars, mlOthers, envVars>>

handleDeleteSubdivision ==
  /\ requestSlotFree
  /\ deleteConfirm # NoConfirm
  /\ deleteConfirm[1].type = "subdivision"
  /\ mlInflight' = mlInflight \cup {mlDeleteRequest("subdivision", deleteConfirm[1].id)}
  /\ UNCHANGED <<mlCities, mlSubdivisions, deleteConfirm, selectedCityIdForSubdivision>>
  /\ UNCHANGED <<dbVars, mlOthers, envVars>>

\* homes.city_id and homes.subdivision_id: ON DELETE SET NULL
homeAfterDelete(h, cityIds, subdivisionIds) ==
  [h EXCEPT !.city_id = IF @ \in cityIds THEN NULL ELSE @,
            !.subdivision_id = IF @ \in subdivisionIds THEN NULL ELSE @]

\* (variant: the homes of the city are deleted with it)
deleteCityRowHomesCascade(id) ==
  /\ dbCities' = {c \in dbCities : c.id # id}
  /\ dbSubdivisions' = {sd \in dbSubdivisions : sd.city_id # id}
  /\ dbHomes' = SelectSeq(dbHomes, LAMBDA h : h.city_id # id)

deleteCityRowNoCascade(id) ==
  /\ dbCities' = {c \in dbCities : c.id # id}
  /\ dbHomes' = [i \in DOMAIN dbHomes |-> homeAfterDelete(dbHomes[i], {id}, {})]
  /\ UNCHANGED dbSubdivisions

\* delete from cities where id = ..: subdivisions.city_id is ON DELETE CASCADE
deleteCityRow(id) ==
  LET gone == {sd.id : sd \in {x \in dbSubdivisions : x.city_id = id}}
  IN /\ dbCities' = {c \in dbCities : c.id # id}
     /\ dbSubdivisions' = {sd \in dbSubdivisions : sd.city_id # id}
     /\ dbHomes' = [i \in DOMAIN dbHomes |-> homeAfterDelete(dbHomes[i], {id}, gone)]

\* delete from subdivisions where id = ..
deleteSubdivisionRow(id) ==
  /\ dbSubdivisions' = {sd \in dbSubdivisions : sd.id # id}
  /\ dbHomes' = [i \in DOMAIN dbHomes |-> homeAfterDelete(dbHomes[i], {}, {id})]
  /\ UNCHANGED dbCities

deletesInFlight == {r \in mlInflight : r.type \in {"city", "subdivision"}}

\* the delete is answered without error: the handler filters its lists
MlDeleteResponse ==
  \E req \in deletesInFlight :
    /\ mlInflight' = mlInflight \ {req}
    /\ IF req.type = "city"
       THEN /\ deleteCityRow(req.id)
            /\ mlCities' = SelectSeq(req.cities, LAMBDA c : c.id # req.id)
            /\ mlSubdivisions' = SelectSeq(req.subdivisions, LAMBDA s : s.city_id # req.id)
       ELSE /\ deleteSubdivisionRow(req.id)
            /\ mlSubdivisions' = SelectSeq(req.subdivisions, LAMBDA s : s.id # req.id)
            /\ UNCHANGED mlCities
    /\ deleteConfirm' = NoConfirm
    /\ UNCHANGED <<dbIds, selectedCityIdForSubdivision, mlOthers, envVars>>

\* the delete fails: the error is alerted, the dialog stays open
MlDeleteFault ==
  \E req \in deletesInFlight :
    /\ faultsLeft > 0
    /\ faultsLeft' = faultsLeft - 1
    /\ mlInflight' = mlInflight \ {req}
    /\ UNCHANGED <<mlCities, mlSubdivisions, deleteConfirm, selectedCityIdForSubdivision>>
    /\ UNCHANGED <<dbVars, mlOthers, editsLeft>>

\* the screen once fetchData has loaded both lists
manageLocationsReady ==
  /\ mlCities = orderByName(dbCities)
  /\ mlSubdivisions = orderByName(dbSubdivisions)
  /\ deleteConfirm = NoConfirm
  /\ mlInflight = {}
  /\ selectedCityIdForSubdivision = ""

\* ------------------------------------------------------------------------
\* CSV: exportToCSV of lib/export and the file parser of ImportHomes.
\* A text is a sequence of tokens: the characters of the values, the
\* separators and, for a fixed label, the label as one token
\* ------------------------------------------------------------------------
NoFile == <<>>
Comma == ","
Quote == "\""
Newline == "\n"

csvHeaders ==
  <<(<<"Date Visited">>), (<<"Address">>), (<<"Street">>), (<<"City">>),
    (<<"Subdivision">>), (<<"Result">>), (<<"Contact Name">>), (<<"Phone Number">>),
    (<<"Follow Up Date">>), (<<"Notes">>), (<<"Latitude">>), (<<"Longitude">>),
    (<<"Created At">>)>>

\* value || ''
orEmpty(v) == IF v = NullText THEN <<>> ELSE v
labelOrEmpty(v) == IF v = NULL THEN <<>> ELSE <<v>>

\* new Date(created_at).toLocaleString(): date, a comma, a space, time
createdAtLocal == <<"1/9/2024", Comma, " ", "10:00:00 AM">>

\* the cells of one home, in the order of the headers
exportRow(home) ==
  <<home.date_visited, home.address, home.street_name, orEmpty(home.cities_name),
    orEmpty(home.subdivisions_name), labelOrEmpty(home.result),
    orEmpty(home.contact_name), orEmpty(home.phone_number),
    orEmpty(home.follow_up_date), orEmpty(home.notes), labelOrEmpty(home.latitude),
    labelOrEmpty(home.longitude), createdAtLocal>>

needsQuoting(field) == \E i \in DOMAIN field : field[i] \in {Comma, Quote, Newline}

\* field.replace(/"/g, '""')
RECURSIVE doubleQuotes(_)
doubleQuotes(field) ==
  IF field = <<>> THEN <<>>
  ELSE (IF Head(field) = Quote THEN <<Quote, Quote>> ELSE <<Head(field)>>)
         \o doubleQuotes(Tail(field))

\* (variant: the quotes of the field are not doubled)
escapeCSVFieldNoDoubling(field) ==
  IF needsQuoting(field) THEN <<Quote>> \o field \o <<Quote>> ELSE field

escapeCSVField(field) ==
  IF needsQuoting(field) THEN <<Quote>> \o doubleQuotes(field) \o <<Quote>> ELSE field

\* Array.prototype.join
RECURSIVE join(_, _)
join(parts, sep) ==
  IF parts = <<>> THEN <<>>
  ELSE IF Len(parts) = 1 THEN parts[1]
  ELSE parts[1] \o <<sep>> \o join(Tail(parts), sep)

csvLine(cells) == join([i \in DOMAIN cells |-> escapeCSVField(cells[i])], Comma)

csvContent(homes) ==
  join(<<csvLine(csvHeaders)>> \o [i \in DOMAIN homes |-> csvLine(exportRow(homes[i]))],
       Newline)

\* the Export CSV button of ViewHomes: exportToCSV(filteredHomes, ..)
exportToCSV ==
  /\ download' = IF vhFilteredHomes = <<>> THEN download ELSE <<csvContent(vhFilteredHomes)>>
  /\ UNCHANGED file
  /\ UNCHANGED <<dbVars, vhVars, impVars, lvVars, lgVars, mlVars, envVars, appVars, dashVars>>

\* String.prototype.split with a one-character separator
RECURSIVE split(_, _)
split(text, sep) ==
  IF \E i \in DOMAIN text : text[i] = sep
  THEN LET i == CHOOSE k \in DOMAIN text :
                  text[k] = sep /\ \A m \in 1..(k - 1) : text[m] # sep
       IN <<SubSeq(text, 1, i - 1)>> \o split(SubSeq(text, i + 1, Len(text)), sep)
  ELSE <<text>>

WhiteSpace == {" ", "\n", "\r", "\t"}

RECURSIVE trimStart(_)
trimStart(text) ==
  IF text # <<>> /\ Head(text) \in WhiteSpace THEN trimStart(Tail(text)) ELSE text

RECURSIVE trimEnd(_)
trimEnd(text) ==
  IF text # <<>> /\ text[Len(text)] \in WhiteSpace
  THEN trimEnd(SubSeq(text, 1, Len(text) - 1))
  ELSE text

trim(text) == trimEnd(trimStart(text))

\* text.split('\n').filter((line) => line.trim())
csvLines(text) == SelectSeq(split(text, Newline), LAMBDA line : trim(line) # <<>>)

\* values[k] || '' and values[k] || undefined
valueOrEmpty(values, k) == IF k <= Len(values) THEN values[k] ELSE <<>>
valueOrUndefined(values, k) ==
  IF k <= Len(values) /\ values[k] # <<>> THEN values[k] ELSE NullText

\* the homes pushed for one line after the header: none or one
parsedOfLine(line) ==
  LET cells == split(line, Comma)
      values == [i \in DOMAIN cells |-> trim(cells[i])]
      home == [address |-> valueOrEmpty(values, 1),
               street_name |-> valueOrEmpty(values, 2),
               city_name |-> valueOrEmpty(values, 3),
               subdivision_name |-> valueOrUndefined(values, 4),
               notes |-> valueOrUndefined(values, 5)]
  IN IF Len(values) < 3 THEN <<>>
     ELSE IF home.address # <<>> /\ home.city_name # <<>> THEN <<home>>
     ELSE <<>>

RECURSIVE parsedOfLines(_)
parsedOfLines(lines) ==
  IF lines = <<>> THEN <<>> ELSE parsedOfLine(Head(lines)) \o parsedOfLines(Tail(lines))

\* (variant: the loop starts at the first line)
parsedOfTextFromHeader(text) == parsedOfLines(csvLines(text))

\* the homes of a text whose first line is the header
parsedOfText(text) == parsedOfLines(Tail(csvLines(text)))

\* handleFileChange with a file whose name ends in .csv
handleFileChange(text) ==
  /\ ~isImporting
  /\ file' = <<text>>
  /\ impError' = NULL
  /\ parsedHomes' = <<>>
  /\ importResults' = NoResults
  /\ UNCHANGED <<isImporting, impRedirect, impPc, cityMap, subdivisionMap, successCount,
                 failedCount, impIdx, impInflight, impLog, impStartLen>>
  /\ UNCHANGED download
  /\ UNCHANGED <<dbVars, vhVars, lvVars, lgVars, mlVars, envVars, appVars, dashVars>>

\* parseCSV, from the click to the end of its finally block
parseCSV ==
  /\ ~isImporting
  /\ file # NoFile
  /\ IF csvLines(file[1]) = <<>>
     THEN /\ impError' = "CSV file is empty"
          /\ UNCHANGED parsedHomes
     ELSE IF parsedOfText(file[1]) = <<>>
     THEN /\ impError' = "No valid homes found in CSV. Please check the format."
          /\ UNCHANGED parsedHomes
     ELSE /\ impError' = NULL
          /\ parsedHomes' = parsedOfText(file[1])
  /\ UNCHANGED <<isImporting, importResults, impRedirect, impPc, cityMap, subdivisionMap,
                 successCount, failedCount, impIdx, impInflight, impLog, impStartLen>>
  /\ UNCHANGED <<download, file>>
  /\ UNCHANGED <<dbVars, vhVars, lvVars, lgVars, mlVars, envVars, appVars, dashVars>>

\* no export made and no file selected
csvReady == download = NoFile /\ file = NoFile

\* ------------------------------------------------------------------------
\* ManageLocations: adding cities and subdivisions
\* ------------------------------------------------------------------------
\* uuid_generate_v4(): the id of the k-th row created
NewIds == <<"n1">>

addsInFlight == {r \in mlInflight : r.type \in {"addCity", "addSubdivision"}}

\* the store can still create a row for every insert awaiting its answer
idsAvailable == dbIds + Cardinality(addsInFlight) < Len(NewIds)

\* [...list, data].sort((a, b) => a.name.localeCompare(b.name)), a stable sort
RECURSIVE insertByName(_, _)
insertByName(sorted, x) ==
  IF sorted = <<>> THEN <<x>>
  ELSE LET last == sorted[Len(sorted)]
       IN IF localeCompare(last.name, x.name) > 0
          THEN Append(insertByName(SubSeq(sorted, 1, Len(sorted) - 1), x), last)
          ELSE Append(sorted, x)

RECURSIVE sortByName(_)
sortByName(list) ==
  IF list = <<>> THEN <<>>
  ELSE insertByName(sortByName(SubSeq(list, 1, Len(list) - 1)), list[Len(list)])

\* handleAddCity up to its await, with `name` typed in the input
handleAddCity(name) ==
  /\ trim(name) # <<>>
  /\ idsAvailable
  /\ requestSlotFree
  /\ mlInflight' = mlInflight \cup
       {[type |-> "addCity", name |-> trim(name), city_id |-> NULL,
         cities |-> mlCities, subdivisions |-> mlSubdivisions]}
  /\ UNCHANGED <<mlCities, mlSubdivisions, deleteConfirm, selectedCityIdForSubdivision>>
  /\ UNCHANGED <<dbVars, mlOthers, envVars>>

\* the select of the subdivision form: an option per listed city, or none
SelectCityForSubdivision(id) ==
  /\ id \in listedIds(mlCities) \cup {""}
  /\ id # selectedCityIdForSubdivision
  /\ selectedCityIdForSubdivision' = id
  /\ UNCHANGED <<mlCities, mlSubdivisions, deleteConfirm, mlInflight>>
  /\ UNCHANGED <<dbVars, mlOthers, envVars>>

\* handleAddSubdivision up to its await, for the city held by the select
handleAddSubdivision(name) ==
  /\ trim(name) # <<>>
  /\ selectedCityIdForSubdivision # ""
  /\ idsAvailable
  /\ requestSlotFree
  /\ mlInflight' = mlInflight \cup
       {[type |-> "addSubdivision", name |-> trim(name),
         city_id |-> selectedCityIdForSubdivision,
         cities |-> mlCities, subdivisions |-> mlSubdivisions]}
  /\ UNCHANGED <<mlCities, mlSubdivisions, deleteConfirm, selectedCityIdForSubdivision>>
  /\ UNCHANGED <<dbVars, mlOthers, envVars>>

\* cities.name UNIQUE
cityInsertErrorCode(name) ==
  IF \E c \in dbCities : c.name = name THEN "23505" ELSE NULL

\* subdivisions.city_id REFERENCES cities(id), UNIQUE(city_id, name)
subdivisionInsertErrorCode(name, city_id) ==
  IF ~(\E c \in dbCities : c.id = city_id) THEN "23503"
  ELSE IF \E sd \in dbSubdivisions : sd.city_id = city_id /\ sd.name = name THEN "23505"
  ELSE NULL

\* the insert of an add is answered by the store
MlAddResponse ==
  \E req \in addsInFlight :
    LET id == NewIds[dbIds + 1]
    IN /\ mlInflight' = mlInflight \ {req}
       /\ IF req.type = "addCity"
          THEN IF cityInsertErrorCode(req.name) = NULL
               THEN /\ dbCities' = dbCities \cup {[id |-> id, name |-> req.name]}
                    /\ dbIds' = dbIds + 1
                    /\ mlCities' = sortByName(Append(req.cities, [id |-> id, name |-> req.name]))
                    /\ UNCHANGED <<dbSubdivisions, dbHomes, mlSubdivisions>>
                    /\ UNCHANGED selectedCityIdForSubdivision
               ELSE UNCHANGED <<dbVars, mlCities, mlSubdivisions, selectedCityIdForSubdivision>>
          ELSE IF subdivisionInsertErrorCode(req.name, req.city_id) = NULL
               THEN /\ dbSubdivisions' = dbSubdivisions \cup
                         {[id |-> id, name |-> req.name, city_id |-> req.city_id]}
                    /\ dbIds' = dbIds + 1
                    /\ mlSubdivisions' =
                         sortByName(Append(req.subdivisions,
                                           [id |-> id, name |-> req.name, city_id |-> req.city_id]))
                    /\ selectedCityIdForSubdivision' = ""
                    /\ UNCHANGED <<dbCities, dbHomes, mlCities>>
               ELSE UNCHANGED <<dbVars, mlCities, mlSubdivisions, selectedCityIdForSubdivision>>
       /\ UNCHANGED deleteConfirm
       /\ UNCHANGED <<mlOthers, envVars>>

\* the insert fails for an outside reason: the error is alerted
MlAddFault ==
  \E req \in addsInFlight :
    /\ faultsLeft > 0
    /\ faultsLeft' = faultsLeft - 1
    /\ mlInflight' = mlInflight \ {req}
    /\ UNCHANGED <<mlCities, mlSubdivisions, deleteConfirm, selectedCityIdForSubdivision>>
    /\ UNCHANGED <<dbVars, mlOthers, editsLeft>>

\* ------------------------------------------------------------------------
\* The application: the pages of the router and the environment
\* ------------------------------------------------------------------------
Routes ==
  {"/", "/log-visit", "/view-homes", "/manage-locations", "/map-view", "/import-homes"}

EnvNames == {"VITE_SUPABASE_URL", "VITE_SUPABASE_ANON_KEY", "VITE_GOOGLE_MAPS_API_KEY"}

\* every variable of the environment is set
AllSet == [n \in EnvNames |-> TRUE]

NoLookup == <<>>

\* the page at `path` is mounted by a configured application
appReady(path) == route = path /\ config = AllSet /\ lookup = NoLookup

\* ------------------------------------------------------------------------
\* Dashboard: the daily notes
\* ------------------------------------------------------------------------
\* uuid_generate_v4(): an id no row carries or carried
NoteIds == {"k1", "k2"}

noteIdsSeen ==
  {n.id : n \in dbNotes} \cup listedIds(adminNotes)
    \cup UNION {listedIds(r.notes) : r \in noteInflight}

noteAddsInFlight == {r \in noteInflight : r.type = "add"}

noteSlotFree == Cardinality(noteInflight) < MaxInflight

\* handleAddNote with `text` typed, up to the await of the insert
handleAddNote(text) ==
  /\ trim(text) # <<>>
  /\ noteSlotFree
  /\ Cardinality(noteIdsSeen) + Cardinality(noteAddsInFlight) < Cardinality(NoteIds)
  /\ noteInflight' = noteInflight \cup
       {[type |-> "add", note |-> trim(text), id |-> NULL, notes |-> adminNotes]}
  /\ UNCHANGED <<dbNotes, adminNotes>>
  /\ UNCHANGED <<dbVars, vhVars, impVars, lvVars, lgVars, mlVars, csvVars, envVars, appVars>>

\* handleDeleteNote of a listed note, confirmed, up to the await of the delete
handleDeleteNote(noteId) ==
  /\ noteId \in listedIds(adminNotes)
  /\ noteSlotFree
  /\ noteInflight' = noteInflight \cup
       {[type |-> "delete", note |-> <<>>, id |-> noteId, notes |-> adminNotes]}
  /\ UNCHANGED <<dbNotes, adminNotes>>
  /\ UNCHANGED <<dbVars, vhVars, impVars, lvVars, lgVars, mlVars, csvVars, envVars, appVars>>

\* the store answers a note request without error
NoteResponse ==
  \E req \in noteInflight :
    /\ noteInflight' = noteInflight \ {req}
    /\ IF req.type = "add"
       THEN \E id \in NoteIds \ noteIdsSeen :
              LET data == [id |-> id, note |-> req.note]
              IN /\ dbNotes' = dbNotes \cup {data}
                 /\ adminNotes' = <<data>> \o req.notes
       ELSE /\ dbNotes' = {n \in dbNotes : n.id # req.id}
            /\ adminNotes' = SelectSeq(req.notes, LAMBDA n : n.id # req.id)
    /\ UNCHANGED <<dbVars, vhVars, impVars, lvVars, lgVars, mlVars, csvVars, envVars, appVars>>

\* a note request fails: the error is alerted
NoteFault ==
  \E req \in noteInflight :
    /\ faultsLeft > 0
    /\ faultsLeft' = faultsLeft - 1
    /\ noteInflight' = noteInflight \ {req}
    /\ UNCHANGED <<dbNotes, adminNotes, editsLeft>>
    /\ UNCHANGED <<dbVars, vhVars, impVars, lvVars, lgVars, mlVars, csvVars, appVars>>

\* the Dashboard once fetchNotes has loaded a table without notes
dashboardReady == dbNotes = {} /\ adminNotes = <<>> /\ noteInflight = {}

\* ------------------------------------------------------------------------
\* lib/supabase: the store client, and the configuration warnings
\* ------------------------------------------------------------------------
\* import.meta.env.NAME: the value set, or nothing
envValue(name) == IF config[name] THEN name ELSE ""

isSupabaseConfigured == envValue("VITE_SUPABASE_URL") # "" /\ envValue("VITE_SUPABASE_ANON_KEY") # ""

\* createClient of supabase-js throws when the url or the key is empty
createClient(url, key) ==
  [threw |-> (url = "" \/ key = ""), url |-> url, key |-> key]

\* (variant: no fallback value)
orPlaceholderNone(v, placeholder) == v

\* value || placeholder
orPlaceholder(v, placeholder) == IF v = "" THEN placeholder ELSE v

\* the client built when the module is loaded
supabase ==
  createClient(orPlaceholder(envValue("VITE_SUPABASE_URL"), "https://placeholder.supabase.co"),
               orPlaceholder(envValue("VITE_SUPABASE_ANON_KEY"), "placeholder-key"))

\* a module that throws while loading leaves the page blank
appStarts == ~supabase.threw

\* only a client built from the configured endpoint and key reaches the store
storeReachable == isSupabaseConfigured

\* Dashboard: {!isSupabaseConfigured && (... Configuration Required ...)}
configurationBanner == ~isSupabaseConfigured

\* what the Map component returns once the script of the maps service is loaded
mapRender ==
  IF envValue("VITE_GOOGLE_MAPS_API_KEY") = "" THEN "Google Maps Not Configured"
  ELSE "GoogleMap"

\* ------------------------------------------------------------------------
\* lib/geocoding: geocodeAddress and getCurrentLocation. An outcome is a
\* value returned (resolved) or an exception thrown (a rejection)
\* ------------------------------------------------------------------------
returned(value) == [thrown |-> FALSE, value |-> value]
thrown == [thrown |-> TRUE, value |-> NULL]

\* what the request to the geocoding service can meet: fetch rejects, the
\* response is not ok, its body is no JSON, or it carries a status and
\* results, whose first may lack its geometry
GeocodeAnswers ==
  [net : {"failed", "notOk", "ok"}, json : BOOLEAN,
   status : {"OK", "ZERO_RESULTS", "REQUEST_DENIED"},
   results : {"undefined", "none", "some"}, geometry : BOOLEAN]

\* the try block of geocodeAddress
geocodeTry(answer) ==
  IF answer.net = "failed" THEN thrown
  ELSE IF answer.net = "notOk" THEN thrown
  ELSE IF ~answer.json THEN thrown
  ELSE IF answer.status = "OK" /\ answer.results = "some"
  THEN IF answer.geometry THEN returned("geocoded") ELSE thrown
  ELSE returned(NULL)

\* (variant: without the catch block)
geocodeAddressNoCatch(apiKey, answer) ==
  IF apiKey = "" THEN returned(NULL) ELSE geocodeTry(answer)

geocodeAddress(apiKey, answer) ==
  IF apiKey = "" THEN returned(NULL)
  ELSE IF geocodeTry(answer).thrown THEN returned(NULL)
  ELSE geocodeTry(answer)

\* the device: navigator.geolocation exists or not, what the position
\* request calls back with and, when it is a position, which one
LocationAnswers ==
  [supported : BOOLEAN,
   callback : {"position", "PERMISSION_DENIED", "POSITION_UNAVAILABLE", "TIMEOUT"},
   position : {"pinned", "nullIsland"}]

\* (variant: the error callback rejects)
getCurrentLocationRejects(answer) ==
  IF ~answer.supported THEN returned(NULL)
  ELSE IF answer.callback = "position" THEN returned(answer.position)
  ELSE thrown

getCurrentLocation(answer) ==
  IF ~answer.supported THEN returned(NULL)
  ELSE IF answer.callback = "position" THEN returned(answer.position)
  ELSE returned(NULL)

appOthers ==
  <<dbVars, vhVars, impVars, lvVars, lgVars, mlVars, csvVars, envVars, dashVars>>

\* onSubmit asks for the coordinates of the address typed
GeocodeCall(answer) ==
  /\ lookup' = <<[fn |-> "geocodeAddress",
                  apiKey |-> envValue("VITE_GOOGLE_MAPS_API_KEY"),
                  answer |-> answer,
                  outcome |-> geocodeAddress(envValue("VITE_GOOGLE_MAPS_API_KEY"), answer)]>>
  /\ UNCHANGED <<route, config>>
  /\ UNCHANGED appOthers

\* handlePinLocation: the position is pinned, or the failure is alerted
handlePinLocation(answer) ==
  /\ lvPc = "idle"
  /\ lookup' = <<[fn |-> "getCurrentLocation", answer |-> answer,
                  outcome |-> getCurrentLocation(answer)]>>
  /\ location' = IF getCurrentLocation(answer).thrown \/ getCurrentLocation(answer).value = NULL
                 THEN location
                 ELSE getCurrentLocation(answer).value
  /\ UNCHANGED <<form, lvErrors, lvSubmitted, lvIsSubmitting, lvError, lvSuccess,
                 duplicateWarning, dupTimer, dupLookups, lvPc, lvData, lvCoords, lvInflight,
                 lvRedirect>>
  /\ UNCHANGED <<route, config>>
  /\ UNCHANGED <<dbVars, vhVars, impVars, lgVars, mlVars, csvVars, envVars, dashVars>>

\* ------------------------------------------------------------------------
\* Specification of the ViewHomes screen over a store that holds up to
\* MaxHomes homes
\* ------------------------------------------------------------------------
TwoCities == {[id |-> "c1", name |-> NameAb], [id |-> "c2", name |-> NameBa]}

HomePool ==
  {homeRow(Addr1a, Street1, "c1", "Not Home", NullText, Date1),
   homeRow(Addr1a, StreetB, "c2", "Scheduled Demo", NameAb, Date2),
   homeRow(Addr2, Street1, NULL, NULL, NullText, Date3),
   homeRow(Addr1, StreetB, "c1", "Scheduled Demo", NameBa, Date2)}

\* sequences of distinct pool homes, at most n long
RECURSIVE homeLists(_)
homeLists(n) ==
  IF n = 0 THEN {<<>>}
  ELSE LET shorter == homeLists(n - 1)
       IN shorter \cup {Append(s, h) : s \in shorter, h \in HomePool}

InitFilter ==
  /\ dbCities = TwoCities
  /\ dbSubdivisions = {}
  /\ dbHomes \in {s \in homeLists(MaxHomes) : \A i, j \in DOMAIN s : s[i] = s[j] => i = j}
  /\ viewHomesMounted
  /\ manageLocationsReady
  /\ csvReady
  /\ dashboardReady
  /\ appReady("/view-homes")
  /\ dbIds = 0
  /\ importReady(<<>>)
  /\ logVisitReady(EmptyForm)
  /\ legacyReady(EmptyFormData)
  /\ faultsLeft = 0
  /\ editsLeft = 0

NextFilter ==
  \/ VhMount
  \/ FetchHomesOk
  \/ FetchHomesFail
  \/ \E v \in CityFilterChoices : SetCityFilter(v)
  \/ \E v \in ResultFilterChoices : SetResultFilter(v)
  \/ \E v \in SearchChoices : SetSearchQuery(v)
  \/ \E v \in StartDateChoices : SetStartDate(v)
  \/ \E v \in EndDateChoices : SetEndDate(v)
  \/ \E v \in SortOptions : SetSortBy(v)
  \/ clearFilters

SpecFilter == InitFilter /\ [][NextFilter]_vars

\* ------------------------------------------------------------------------
\* Specification of an ImportHomes screen with a parsed file: up to MaxRows
\* rows over a store with two cities, or one of the ten-row files of the
\* reconciliation example
\* ------------------------------------------------------------------------
NameAbLower == <<"a", "b">>
NameAbUpper == <<"A", "B">>
NameUnknown == <<"z", "z">>
SubName == <<"B">>
SubNameLower == <<"b">>
NoteA == <<"a">>

TwoSubdivisions ==
  {[id |-> "s1", name |-> SubName, city_id |-> "c1"],
   [id |-> "s2", name |-> SubName, city_id |-> "c2"]}

parsedRow(address, street_name, city_name, subdivision_name, notes) ==
  [address |-> address, street_name |-> street_name, city_name |-> city_name,
   subdivision_name |-> subdivision_name, notes |-> notes]

RowPool ==
  {parsedRow(Addr1, Street1, NameAbLower, NullText, NullText),
   parsedRow(Addr1, <<>>, NameAbUpper, SubNameLower, NullText),
   parsedRow(Addr2, Street1, NameUnknown, NullText, NoteA),
   parsedRow(Addr2, StreetB, NameBa, SubNameLower, NoteA)}

RECURSIVE rowLists(_)
rowLists(n) ==
  IF n = 0 THEN {<<>>}
  ELSE LET shorter == rowLists(n - 1)
       IN shorter \cup {Append(s, r) : s \in shorter, r \in RowPool}

\* the reconciliation example: ten rows, row p names an unknown city, rows
\* d1 and d2 repeat the two homes the store already holds, the other seven
\* are new addresses of a known city
DigitChars == <<"0", "1", "2", "4", "9">>
TenAddresses == [i \in 1..10 |-> <<DigitChars[((i - 1) \div 5) + 1], DigitChars[((i - 1) % 5) + 1]>>]
StoredAddr1 == <<"2", "0">>
StoredAddr2 == <<"2", "1">>

TenRowStore ==
  <<homeRow(StoredAddr1, Street1, "c1", "Not Home", NullText, Date1),
    homeRow(StoredAddr2, Street1, "c2", "Sold/Closed", NullText, Date2)>>

tenRows(p, d1, d2) ==
  [i \in 1..10 |->
     IF i = p THEN parsedRow(TenAddresses[i], Street1, NameUnknown, NullText, NullText)
     ELSE IF i = d1 THEN parsedRow(StoredAddr1, Street1, NameAbLower, NullText, NullText)
     ELSE IF i = d2 THEN parsedRow(StoredAddr2, Street1, NameBa, NullText, NullText)
     ELSE parsedRow(TenAddresses[i], Street1, NameAbUpper, NullText, NullText)]

TenRowFiles ==
  {tenRows(t[1], t[2], t[3]) :
     t \in {u \in (1..10) \X (1..10) \X (1..10) : u[1] # u[2] /\ u[1] # u[3] /\ u[3] \in {u[2] + 1, u[2] + 4}}}

InitImport ==
  /\ dbCities = TwoCities
  /\ dbSubdivisions = TwoSubdivisions
  /\ \/ /\ dbHomes \in {<<>>, <<homeRow(Addr1, Street1, "c1", "Not Home", NullText, Date1)>>}
        /\ \E rows \in rowLists(MaxRows) \ {<<>>} : importReady(rows)
     \/ /\ dbHomes = TenRowStore
        /\ \E rows \in TenRowFiles : importReady(rows)
  /\ faultsLeft = MaxFaults
  /\ viewHomesMounted
  /\ manageLocationsReady
  /\ csvReady
  /\ dashboardReady
  /\ appReady("/import-homes")
  /\ dbIds = 0
  /\ logVisitReady(EmptyForm)
  /\ legacyReady(EmptyFormData)
  /\ editsLeft = 0

NextImport ==
  \/ ImportStart
  \/ ImportGetUser
  \/ ImportCitiesOk
  \/ ImportCitiesFail
  \/ ImportSubdivisionsOk
  \/ ImportSubdivisionsFail
  \/ ImportRow
  \/ ImportInsertResponse
  \/ ImportInsertFault
  \/ ImportFinish

SpecImport == InitImport /\ [][NextImport]_vars

\* ------------------------------------------------------------------------
\* Specification of the LogVisit screen (schema-validated form): a form
\* just typed, up to MaxEdits further edits, over a store with two cities
\* ------------------------------------------------------------------------
Phone1 == <<"1">>

fieldChoices(f) ==
  CASE f = "city_id" -> {"", "c1", "c2"}
    [] f = "subdivision_id" -> {"", "s1"}
    [] f = "street_name" -> {<<>>, Street1}
    [] f = "address" -> {<<>>, Addr1, Addr2}
    [] f = "result" -> {"", "Not Home", "Scheduled Demo", "Interested - Call Back", "Bogus"}
    [] f = "contact_name" -> {<<>>, NameAb}
    [] f = "phone_number" -> {<<>>, Phone1}
    [] f = "follow_up_date" -> {<<>>, Date1}
    [] f = "notes" -> {<<>>, NoteA}

FormDemo ==
  [EmptyForm EXCEPT !.city_id = "c1", !.street_name = Street1, !.address = Addr1,
                    !.result = "Scheduled Demo", !.contact_name = NameAb]

StoredHomeA == homeRow(Addr1, Street1, "c1", "Not Home", NullText, Date1)
StoredHomeB == homeRow(Addr2, StreetB, "c1", NULL, NullText, Date2)

InitLog ==
  /\ dbCities = TwoCities
  /\ dbSubdivisions = TwoSubdivisions
  /\ dbHomes = <<StoredHomeA, StoredHomeB>>
  /\ \E f0 \in {EmptyForm, FormDemo} : logVisitReady(f0)
  /\ legacyReady(EmptyFormData)
  /\ viewHomesMounted
  /\ manageLocationsReady
  /\ csvReady
  /\ dashboardReady
  /\ appReady("/log-visit")
  /\ dbIds = 0
  /\ importReady(<<>>)
  /\ faultsLeft = MaxFaults
  /\ editsLeft = MaxEdits

NextLog ==
  \/ \E f \in DOMAIN EmptyForm : \E v \in fieldChoices(f) : SetField(f, v)
  \/ DupTimerFire
  \/ DupLookupResponse
  \/ DupLookupFault
  \/ LvSubmit
  \/ LvGetUser
  \/ LvGeocode
  \/ LvInsertResponse
  \/ LvInsertFault

SpecLog == InitLog /\ [][NextLog]_vars

\* ------------------------------------------------------------------------
\* Specification of the earlier LogVisit form of pages/LogVisit.tsx
\* ------------------------------------------------------------------------
legacyChoices(f) ==
  CASE f = "cityId" -> {"", "c1", "c2"}
    [] f = "subdivisionId" -> {"", "s1"}
    [] f = "streetName" -> {<<>>, Street1}
    [] f = "address" -> {<<>>, Addr1, Addr2}
    [] f = "result" -> {"", "Not Home", "Scheduled Demo"}
    [] f = "contactName" -> {<<>>, NameAb}
    [] f = "phoneNumber" -> {<<>>, Phone1}
    [] f = "followUpDate" -> {<<>>, Date1}
    [] f = "notes" -> {<<>>, NoteA}
    [] f = "dateVisited" -> {<<>>, Date1, Today}

InitLegacy ==
  /\ dbCities = TwoCities
  /\ dbSubdivisions = TwoSubdivisions
  /\ dbHomes \in {<<>>, <<StoredHomeA, StoredHomeB>>}
  /\ logVisitReady(EmptyForm)
  /\ legacyReady(EmptyFormData)
  /\ viewHomesMounted
  /\ manageLocationsReady
  /\ csvReady
  /\ dashboardReady
  /\ appReady("/log-visit")
  /\ dbIds = 0
  /\ importReady(<<>>)
  /\ faultsLeft = MaxFaults
  /\ editsLeft = MaxEdits

NextLegacy ==
  \/ \E f \in DOMAIN EmptyFormData : \E v \in legacyChoices(f) : LgChange(f, v)
  \/ LgSubmit
  \/ LgInsertResponse
  \/ LgInsertFault

SpecLegacy == InitLegacy /\ [][NextLegacy]_vars

\* ------------------------------------------------------------------------
\* Specification of the homes table under all its writers: the LogVisit
\* form, an import and the deletions of ManageLocations, over a store that
\* starts with two cities, their subdivisions and no home. The router mounts
\* one screen at a time: an operation is started while no other is running
\* ------------------------------------------------------------------------
StoreFiles ==
  {<<parsedRow(Addr1, Street1, NameBa, SubNameLower, NullText)>>,
   <<parsedRow(Addr1, Street1, NameAbLower, NullText, NullText),
     parsedRow(Addr2, Street1, NameBa, NullText, NullText)>>}

StoreFields == {"city_id"}

InitStore ==
  /\ dbCities = TwoCities
  /\ dbSubdivisions = TwoSubdivisions
  /\ dbHomes = <<>>
  /\ \E rows \in StoreFiles : importReady(rows)
  /\ logVisitReady(FormDemo)
  /\ legacyReady(EmptyFormData)
  /\ viewHomesMounted
  /\ manageLocationsReady
  /\ csvReady
  /\ dashboardReady
  /\ appReady("/")
  /\ dbIds = 0
  /\ faultsLeft = 0
  /\ editsLeft = MaxEdits

storeIdle ==
  lvPc = "idle" /\ ~isImporting /\ deleteConfirm = NoConfirm /\ mlInflight = {}

NextStore ==
  \/ \E f \in StoreFields : \E v \in fieldChoices(f) : storeIdle /\ SetField(f, v)
  \/ storeIdle /\ LvSubmit
  \/ LvGetUser
  \/ LvGeocode
  \/ LvInsertResponse
  \/ storeIdle /\ ImportStart
  \/ ImportGetUser
  \/ ImportCitiesOk
  \/ ImportSubdivisionsOk
  \/ ImportRow
  \/ ImportInsertResponse
  \/ ImportFinish
  \/ \E type \in {"city", "subdivision"} : \E id \in CityIds \cup SubdivisionIds :
       storeIdle /\ MlAskDelete(type, id)
  \/ MlCancelDelete
  \/ handleDeleteCity
  \/ handleDeleteSubdivision
  \/ MlDeleteResponse

SpecStore == InitStore /\ [][NextStore]_vars

\* ------------------------------------------------------------------------
\* Specification of the files: the homes shown by ViewHomes are exported,
\* and the export or a hand-written file is selected and parsed in
\* ImportHomes
\* ------------------------------------------------------------------------
HandFiles ==
  {<<>>,
   <<"address", Comma, "street", Comma, "city">>,
   <<"address", Comma, "street", Comma, "city", Newline,
     "1", Comma, " ", "a", "b", Comma, "A", "b", Newline,
     Newline,
     "2", Comma, Comma, "b", "a", Comma, "B", Comma, "a", Newline,
     "1", Comma, "a">>}

InitCsv ==
  /\ dbCities = TwoCities
  /\ dbSubdivisions = TwoSubdivisions
  /\ dbHomes \in homeLists(MaxHomes)
  /\ viewHomesMounted
  /\ manageLocationsReady
  /\ csvReady
  /\ dashboardReady
  /\ appReady("/view-homes")
  /\ dbIds = 0
  /\ importReady(<<>>)
  /\ logVisitReady(EmptyForm)
  /\ legacyReady(EmptyFormData)
  /\ faultsLeft = 0
  /\ editsLeft = 0

NextCsv ==
  \/ FetchHomesOk
  \/ \E v \in SortOptions : SetSortBy(v)
  \/ exportToCSV
  \/ \E text \in HandFiles \cup {download[i] : i \in DOMAIN download} : handleFileChange(text)
  \/ parseCSV

SpecCsv == InitCsv /\ [][NextCsv]_vars

\* ------------------------------------------------------------------------
\* Specification of ManageLocations over a store with two cities, their
\* subdivisions and homes that reference them; the rows added take their
\* ids from NewIds
\* ------------------------------------------------------------------------
BlankName == <<" ">>

NewCityNames == {NameAb, NameUnknown, BlankName}
NewSubdivisionNames == {SubName, NameUnknown}

LocatedHomes ==
  <<[homeRow(Addr1, Street1, "c1", "Not Home", NullText, Date1) EXCEPT !.subdivision_id = "s1"],
    homeRow(Addr2, Street1, "c1", "Not Home", NullText, Date2),
    [homeRow(Addr1, Street1, "c2", NULL, NullText, Date2) EXCEPT !.subdivision_id = "s2"]>>

InitLocations ==
  /\ dbCities = TwoCities
  /\ dbSubdivisions = TwoSubdivisions
  /\ dbHomes = LocatedHomes
  /\ dbIds = 0
  /\ viewHomesMounted
  /\ manageLocationsReady
  /\ csvReady
  /\ dashboardReady
  /\ appReady("/manage-locations")
  /\ importReady(<<>>)
  /\ logVisitReady(EmptyForm)
  /\ legacyReady(EmptyFormData)
  /\ faultsLeft = MaxFaults
  /\ editsLeft = 0

AllLocationIds == CityIds \cup SubdivisionIds \cup {NewIds[i] : i \in DOMAIN NewIds}

\* the user sends a request once the one before it is answered
NextLocations ==
  \/ \E name \in NewCityNames : mlInflight = {} /\ handleAddCity(name)
  \/ \E id \in AllLocationIds \cup {""} : SelectCityForSubdivision(id)
  \/ \E name \in NewSubdivisionNames : mlInflight = {} /\ handleAddSubdivision(name)
  \/ MlAddResponse
  \/ MlAddFault
  \/ \E type \in {"city", "subdivision"} : \E id \in AllLocationIds : MlAskDelete(type, id)
  \/ MlCancelDelete
  \/ mlInflight = {} /\ handleDeleteCity
  \/ mlInflight = {} /\ handleDeleteSubdivision
  \/ MlDeleteResponse
  \/ MlDeleteFault

SpecLocations == InitLocations /\ [][NextLocations]_vars

\* ------------------------------------------------------------------------
\* Specification of the store requests of each page: the page mounted is
\* drawn at the start, and its operations run against a store with one home
\* ------------------------------------------------------------------------
FormDataFilled ==
  [EmptyFormData EXCEPT !.cityId = "c1", !.address = Addr1, !.streetName = Street1]

FormOther == [FormDemo EXCEPT !.address = Addr2]

NoteTexts == {NoteA, BlankName}

\* the rows ManageLocations is asked to delete
DeletedRows == {[type |-> "city", id |-> "c1"], [type |-> "subdivision", id |-> "s2"]}

InitRequests ==
  /\ route \in Routes \ {"/map-view"}
  /\ config = AllSet
  /\ lookup = NoLookup
  /\ dbCities = TwoCities
  /\ dbSubdivisions = TwoSubdivisions
  /\ dbHomes = <<StoredHomeA>>
  /\ dbIds = 0
  /\ \E rows \in (IF route = "/import-homes" THEN StoreFiles ELSE {<<>>}) : importReady(rows)
  /\ \E f0 \in (IF route = "/log-visit" THEN {FormDemo, FormOther} ELSE {EmptyForm}) :
       logVisitReady(f0)
  /\ legacyReady(IF route = "/log-visit" THEN FormDataFilled ELSE EmptyFormData)
  /\ viewHomesMounted
  /\ manageLocationsReady
  /\ csvReady
  /\ dashboardReady
  /\ faultsLeft = MaxFaults
  /\ editsLeft = 0

NextRequests ==
  \/ route = "/view-homes" /\ VhMount
  \/ route = "/view-homes" /\ FetchHomesOk
  \/ route = "/view-homes" /\ FetchHomesFail
  \/ route = "/log-visit" /\ LvSubmit
  \/ route = "/log-visit" /\ LvGetUser
  \/ route = "/log-visit" /\ LvGeocode
  \/ route = "/log-visit" /\ LvInsertResponse
  \/ route = "/log-visit" /\ LvInsertFault
  \/ route = "/log-visit" /\ LgSubmit
  \/ route = "/log-visit" /\ LgInsertResponse
  \/ route = "/log-visit" /\ LgInsertFault
  \/ route = "/import-homes" /\ ImportStart
  \/ route = "/import-homes" /\ ImportGetUser
  \/ route = "/import-homes" /\ ImportCitiesOk
  \/ route = "/import-homes" /\ ImportCitiesFail
  \/ route = "/import-homes" /\ ImportSubdivisionsOk
  \/ route = "/import-homes" /\ ImportSubdivisionsFail
  \/ route = "/import-homes" /\ ImportRow
  \/ route = "/import-homes" /\ ImportInsertResponse
  \/ route = "/import-homes" /\ ImportInsertFault
  \/ route = "/import-homes" /\ ImportFinish
  \/ route = "/manage-locations" /\ handleAddCity(NameUnknown)
  \/ route = "/manage-locations" /\ SelectCityForSubdivision("c1")
  \/ route = "/manage-locations" /\ handleAddSubdivision(NameUnknown)
  \/ route = "/manage-locations" /\ MlAddResponse
  \/ route = "/manage-locations" /\ MlAddFault
  \/ route = "/manage-locations" /\ \E row \in DeletedRows : MlAskDelete(row.type, row.id)
  \/ route = "/manage-locations" /\ MlCancelDelete
  \/ route = "/manage-locations" /\ handleDeleteCity
  \/ route = "/manage-locations" /\ handleDeleteSubdivision
  \/ route = "/manage-locations" /\ MlDeleteResponse
  \/ route = "/manage-locations" /\ MlDeleteFault
  \/ route = "/" /\ \E text \in NoteTexts : handleAddNote(text)
  \/ route = "/" /\ \E id \in NoteIds : handleDeleteNote(id)
  \/ route = "/" /\ NoteResponse
  \/ route = "/" /\ NoteFault

SpecRequests == InitRequests /\ [][NextRequests]_vars

\* ------------------------------------------------------------------------
\* Specification of the application under every configuration: the
\* variables set and the page mounted are drawn at the start; the store
\* answers only a client that reaches it
\* ------------------------------------------------------------------------
InitEnvironment ==
  /\ route \in Routes
  /\ config \in [EnvNames -> BOOLEAN]
  /\ lookup = NoLookup
  /\ dbCities = TwoCities
  /\ dbSubdivisions = TwoSubdivisions
  /\ dbHomes = <<StoredHomeA>>
  /\ dbIds = 0
  /\ importReady(<<>>)
  /\ logVisitReady(IF route = "/log-visit" THEN FormOther ELSE EmptyForm)
  /\ legacyReady(EmptyFormData)
  /\ viewHomesMounted
  /\ manageLocationsReady
  /\ csvReady
  /\ dashboardReady
  /\ faultsLeft = MaxFaults
  /\ editsLeft = 0

NextEnvironment ==
  \/ appStarts /\ route = "/view-homes" /\ storeReachable /\ FetchHomesOk
  \/ appStarts /\ route = "/view-homes" /\ FetchHomesFail
  \/ appStarts /\ route = "/log-visit" /\ \E answer \in LocationAnswers : handlePinLocation(answer)
  \/ appStarts /\ route = "/log-visit" /\ LvSubmit
  \/ appStarts /\ route = "/log-visit" /\ LvGetUser
  \/ appStarts /\ route = "/log-visit" /\ lvPc = "geocode"
       /\ \E answer \in GeocodeAnswers : GeocodeCall(answer)
  \/ appStarts /\ route = "/log-visit" /\ lookup # NoLookup /\ lookup[1].fn = "geocodeAddress"
       /\ ~lookup[1].outcome.thrown /\ LvGeocode /\ lvCoords' = lookup[1].outcome.value
  \/ appStarts /\ route = "/log-visit" /\ storeReachable /\ LvInsertResponse
  \/ appStarts /\ route = "/log-visit" /\ LvInsertFault

SpecEnvironment == InitEnvironment /\ [][NextEnvironment]_vars

\* ------------------------------------------------------------------------
\* Specification of the file parser of ImportHomes: a file of up to MaxLines
\* lines, or later a hand-written file, is selected and parsed
\* ------------------------------------------------------------------------
LinePool ==
  {<<"address", Comma, "street", Comma, "city">>,
   <<" ", "1", Comma, " ", "a", "b", Comma, "A", "b", "\r">>,
   <<"2", Comma, Comma, "b", "a", Comma, "B", Comma, "a">>,
   <<"1", Comma, "a">>,
   <<" ", Comma, "a", Comma, "b", "a">>,
   <<"2", Comma, "a", Comma, " ">>,
   <<" ", "\r">>}

RECURSIVE lineLists(_)
lineLists(n) ==
  IF n = 0 THEN {<<>>}
  ELSE LET shorter == lineLists(n - 1)
       IN shorter \cup {Append(s, l) : s \in shorter, l \in LinePool}

ParseFiles == {join(lines, Newline) : lines \in lineLists(MaxLines)}

\* a file has just been selected
InitParse ==
  /\ dbCities = TwoCities
  /\ dbSubdivisions = TwoSubdivisions
  /\ dbHomes = <<>>
  /\ viewHomesMounted
  /\ manageLocationsReady
  /\ download = NoFile
  /\ file \in {<<text>> : text \in ParseFiles}
  /\ dashboardReady
  /\ appReady("/import-homes")
  /\ dbIds = 0
  /\ importReady(<<>>)
  /\ logVisitReady(EmptyForm)
  /\ legacyReady(EmptyFormData)
  /\ faultsLeft = 0
  /\ editsLeft = 0

NextParse ==
  \/ \E text \in HandFiles : handleFileChange(text)
  \/ parseCSV

SpecParse == InitParse /\ [][NextParse]_vars

\* ------------------------------------------------------------------------
\* Specification of the export of ViewHomes: the homes shown, whose texts
\* hold commas, quotes and newlines, are exported under each sort order
\* ------------------------------------------------------------------------
StreetComma == <<"a", Comma, "b">>
NotesQuoted == <<"a", Quote, "b", Quote>>
NotesTwoLines == <<"a", Newline, "b">>
NameQuote == <<Quote>>

ExportPool ==
  {[homeRow(Addr1, StreetComma, "c1", "Not Home", NullText, Date1)
      EXCEPT !.notes = NotesQuoted],
   [homeRow(Addr2, Street1, "c2", "Scheduled Demo", NameQuote, Date2)
      EXCEPT !.notes = NotesTwoLines, !.latitude = Positions.pinned.lat,
             !.longitude = Positions.pinned.lng, !.location_pinned_at = Now],
   homeRow(Addr1a, StreetB, NULL, NULL, NullText, Date3)}

RECURSIVE exportLists(_)
exportLists(n) ==
  IF n = 0 THEN {<<>>}
  ELSE LET shorter == exportLists(n - 1)
       IN shorter \cup {Append(s, h) : s \in shorter, h \in ExportPool}

InitExport ==
  /\ dbCities = TwoCities
  /\ dbSubdivisions = TwoSubdivisions
  /\ dbHomes \in exportLists(MaxHomes)
  /\ viewHomesMounted
  /\ manageLocationsReady
  /\ csvReady
  /\ dashboardReady
  /\ appReady("/view-homes")
  /\ dbIds = 0
  /\ importReady(<<>>)
  /\ logVisitReady(EmptyForm)
  /\ legacyReady(EmptyFormData)
  /\ faultsLeft = 0
  /\ editsLeft = 0

NextExport ==
  \/ FetchHomesOk
  \/ \E v \in SortOptions : SetSortBy(v)
  \/ exportToCSV

SpecExport == InitExport /\ [][NextExport]_vars

\* ------------------------------------------------------------------------
\* Specification of an import run that goes on: a file of up to MaxRows
\* rows, and every request of the run is answered or fails in the end, so a
\* step of the run that can be taken is taken
\* ------------------------------------------------------------------------
InitRun == InitImport /\ parsedHomes \in rowLists(MaxRows)

\* the steps of importHomes after its start
ImportProgress ==
  \/ ImportGetUser
  \/ ImportCitiesOk
  \/ ImportCitiesFail
  \/ ImportSubdivisionsOk
  \/ ImportSubdivisionsFail
  \/ ImportRow
  \/ ImportInsertResponse
  \/ ImportInsertFault
  \/ ImportFinish

SpecRun == InitRun /\ [][NextImport]_vars /\ WF_vars(ImportProgress)

\* ------------------------------------------------------------------------
\* Specification of ManageLocations with overlapping requests: the user
\* sends a request while up to MaxInflight - 1 others await their answer,
\* and the answers arrive in any order
\* ------------------------------------------------------------------------
InitOverlap ==
  /\ dbCities = TwoCities
  /\ dbSubdivisions = TwoSubdivisions
  /\ dbHomes = LocatedHomes
  /\ dbIds = 0
  /\ viewHomesMounted
  /\ manageLocationsReady
  /\ csvReady
  /\ dashboardReady
  /\ appReady("/manage-locations")
  /\ importReady(<<>>)
  /\ logVisitReady(EmptyForm)
  /\ legacyReady(EmptyFormData)
  /\ faultsLeft = 0
  /\ editsLeft = 0

NextOverlap ==
  \/ handleAddCity(NameUnknown)
  \/ SelectCityForSubdivision("c2")
  \/ handleAddSubdivision(NameUnknown)
  \/ MlAddResponse
  \/ \E row \in DeletedRows : MlAskDelete(row.type, row.id)
  \/ MlCancelDelete
  \/ handleDeleteCity
  \/ handleDeleteSubdivision
  \/ MlDeleteResponse

SpecOverlap == InitOverlap /\ [][NextOverlap]_vars

\* ------------------------------------------------------------------------
\* Specification of the earlier LogVisit form with the address typed and a
\* city and one of its subdivisions possibly chosen already, followed by
\* up to MaxEdits further edits
\* ------------------------------------------------------------------------
FilledForms ==
  {[EmptyFormData EXCEPT !.address = Addr1, !.cityId = c, !.subdivisionId = s] :
     <<c, s>> \in {<<"", "">>, <<"c1", "">>, <<"c2", "">>, <<"c1", "s1">>, <<"c2", "s2">>}}

InitFilled ==
  /\ dbCities = TwoCities
  /\ dbSubdivisions = TwoSubdivisions
  /\ dbHomes = <<>>
  /\ logVisitReady(EmptyForm)
  /\ \E fd0 \in FilledForms : legacyReady(fd0)
  /\ viewHomesMounted
  /\ manageLocationsReady
  /\ csvReady
  /\ dashboardReady
  /\ appReady("/log-visit")
  /\ dbIds = 0
  /\ importReady(<<>>)
  /\ faultsLeft = MaxFaults
  /\ editsLeft = MaxEdits

SpecFilled == InitFilled /\ [][NextLegacy]_vars

\* ------------------------------------------------------------------------
\* C1: every home of filteredHomes is a home of the fetched list and
\* satisfies each predicate whose value is non-empty: city name equal to the
\* city filter, result equal to the result filter, the search text a
\* case-insensitive substring of address, street name or contact name,
\* date_visited >= start date and date_visited <= end date.
\* ------------------------------------------------------------------------
containsIgnoringCase(text, q) ==
  \E i \in 1..Len(text) : \E j \in i..Len(text) :
     toLowerCase(SubSeq(text, i, j)) = toLowerCase(q)

FilteredSound ==
  \A k \in DOMAIN vhFilteredHomes :
    LET h == vhFilteredHomes[k]
    IN /\ h \in Range(vhHomes)
       /\ cityFilter # <<>> => h.cities_name = cityFilter
       /\ resultFilter # "" => h.result = resultFilter
       /\ searchQuery # <<>> =>
            \/ containsIgnoringCase(h.address, searchQuery)
            \/ containsIgnoringCase(h.street_name, searchQuery)
            \/ h.contact_name # NullText /\ containsIgnoringCase(h.contact_name, searchQuery)
       /\ startDate # <<>> => ~(lexCompare(h.date_visited, startDate, codeUnit) < 0)
       /\ endDate # <<>> => ~(lexCompare(h.date_visited, endDate, codeUnit) > 0)

FilteredSoundWitness ==
  /\ cityFilter # <<>>
  /\ searchQuery # <<>>
  /\ endDate # <<>>
  /\ vhFilteredHomes # <<>>
  /\ Len(vhFilteredHomes) < Len(vhHomes)

\* a home the import inserted: its notes carry the import tag
isImported(h) ==
  h.notes # NullText /\ Head(h.notes) \in {ImportedPrefix, ImportedDefault}

\* the row's city_name equals no stored city name, compared without case
cityUnknown(row) ==
  ~(\E c \in dbCities : toLowerCase(c.name) = toLowerCase(row.city_name))

\* the store holds a home with the address and the (non-null) city of data
duplicatesStored(data) ==
  \E i \in DOMAIN dbHomes :
    dbHomes[i].address = data.address /\ dbHomes[i].city_id = data.city_id

\* the run has gone through all its rows and reported
runReported == impPc = "idle" /\ Len(impLog) = Len(parsedHomes)

\* ------------------------------------------------------------------------
\* C2: when a run whose prefetch succeeded has reported, success + failed is
\* the number of parsed rows and success is the number of homes the run
\* added to the store; a ten-row file with two duplicates of stored homes and
\* one unknown city, imported with no other store failure, reports
\* {success: 7, failed: 3}.
\* ------------------------------------------------------------------------
ImportAccounting ==
  runReported =>
    /\ importResults # NoResults
    /\ importResults[1].success + importResults[1].failed = Len(parsedHomes)
    /\ importResults[1].success = Len(dbHomes) - impStartLen
    /\ (/\ parsedHomes \in TenRowFiles
        /\ impStartLen = Len(TenRowStore)
        /\ \A k \in DOMAIN impLog : impLog[k] # "error")
         => importResults[1] = [success |-> 7, failed |-> 3]

ImportAccountingWitness ==
  /\ runReported
  /\ parsedHomes \in TenRowFiles
  /\ importResults = <<[success |-> 7, failed |-> 3]>>
  /\ Len(dbHomes) = Len(TenRowStore) + 7

\* ------------------------------------------------------------------------
\* C3: the iteration of a row whose city_name matches no known city sends no
\* insert request, stores nothing and adds exactly one to the failed count;
\* every request of the import and every home it inserted has a city_id.
\* ------------------------------------------------------------------------
UnknownCityStep ==
  (impPc = "loop" /\ impIdx <= Len(parsedHomes) /\ cityUnknown(parsedHomes[impIdx]))
    => /\ failedCount' = failedCount + 1
       /\ successCount' = successCount
       /\ impInflight' = impInflight
       /\ dbHomes' = dbHomes

ImportedHaveCity ==
  /\ \A req \in impInflight :
       req.data.city_id # NULL /\ ~cityUnknown(parsedHomes[req.row])
  /\ \A i \in DOMAIN dbHomes : isImported(dbHomes[i]) => dbHomes[i].city_id # NULL

UnknownCityExcluded == []ImportedHaveCity /\ [][UnknownCityStep]_vars

UnknownCityExcludedWitness ==
  /\ impPc = "loop"
  /\ impLog # <<>>
  /\ impLog[Len(impLog)] = "nocity"
  /\ cityUnknown(parsedHomes[Len(impLog)])
  /\ failedCount >= 1
  /\ \E i \in DOMAIN dbHomes : isImported(dbHomes[i])

\* ------------------------------------------------------------------------
\* C4: when the store rejects the insert of a row because its (address,
\* city_id) is already stored, the row is counted as failed, nothing is
\* stored, no import error is set, the run goes on and the next row is the
\* one after it.
\* ------------------------------------------------------------------------
DuplicateStep ==
  \A req \in impInflight :
    (req \notin impInflight' /\ faultsLeft' = faultsLeft /\ duplicatesStored(req.data))
      => /\ failedCount' = failedCount + 1
         /\ successCount' = successCount
         /\ dbHomes' = dbHomes
         /\ impError' = NULL
         /\ isImporting'
         /\ impPc' = "loop"
         /\ impIdx' = req.row + 1

DuplicateNotFatal == [][DuplicateStep]_vars

\* a row is being inserted right after a row that was rejected as a duplicate
DuplicateNotFatalWitness ==
  /\ impLog # <<>>
  /\ impLog[Len(impLog)] = "duplicate"
  /\ impError = NULL
  /\ \E req \in impInflight : req.row = Len(impLog) + 1

\* ------------------------------------------------------------------------
\* C8: at most one insert request of the import is in flight; it is the
\* request of the row after the rows whose outcome is known, so a row's
\* request is sent only once every earlier row has been answered or skipped.
\* ------------------------------------------------------------------------
ImportSequential ==
  /\ Cardinality(impInflight) <= 1
  /\ \A req \in impInflight :
       /\ req.row = Len(impLog) + 1
       /\ req.row = impIdx
       /\ req.data.address = parsedHomes[req.row].address
  /\ Len(impLog) <= Len(parsedHomes)

ImportSequentialWitness ==
  /\ \E req \in impInflight : req.row >= 2 /\ impLog[req.row - 1] \in {"ok", "duplicate"}

\* ------------------------------------------------------------------------
\* C5: after any sequence of log-visit submissions, imports and city or
\* subdivision deletions, no two stored homes have the same (address,
\* city_id) pair.
\* ------------------------------------------------------------------------
HomesPairUnique ==
  \A i, j \in DOMAIN dbHomes :
    i # j => ~(/\ dbHomes[i].address = dbHomes[j].address
               /\ dbHomes[i].city_id = dbHomes[j].city_id)

\* ------------------------------------------------------------------------
\* C6: a pending debounce timer holds the pair the form holds now; when it
\* fires with a non-empty address and city the lookup of that pair is sent;
\* when a lookup is answered without error and the store holds a home with
\* that pair, the warning is set to a text that contains the date_visited of
\* such a home, and its result when it has one.
\* ------------------------------------------------------------------------
TimerHoldsPair == \A t \in dupTimer : t = watchedPair(form)

TimerStep ==
  \A t \in dupTimer :
    (t \notin dupTimer' /\ form' = form /\ t.address # <<>> /\ t.city_id # "")
      => t \in dupLookups'

LookupStep ==
  \A q \in dupLookups :
    (q \notin dupLookups' /\ faultsLeft' = faultsLeft /\ lookupMatches(q) # {})
      => \E i \in lookupMatches(q) :
           /\ includes(duplicateWarning', dbHomes[i].date_visited)
           /\ dbHomes[i].result # NULL => includes(duplicateWarning', <<dbHomes[i].result>>)

DuplicateWarned == []TimerHoldsPair /\ [][TimerStep /\ LookupStep]_vars

\* the form still holds the pair of a stored home with a result, and the
\* warning names that home's date and result
DuplicateWarnedWitness ==
  /\ duplicateWarning # NullText
  /\ \E i \in lookupMatches(watchedPair(form)) :
       /\ dbHomes[i].result # NULL
       /\ includes(duplicateWarning, dbHomes[i].date_visited)
       /\ includes(duplicateWarning, <<dbHomes[i].result>>)

\* ------------------------------------------------------------------------
\* C7: while a duplicate warning is displayed a valid form can be submitted
\* unless a submission is already running, and a submission that has started
\* goes on to send the insert request of the submitted data: the warning
\* neither disables the button nor cuts onSubmit short.
\* ------------------------------------------------------------------------
SubmissionOpen ==
  (duplicateWarning # NullText /\ schemaErrors(form) = {} /\ ~lvIsSubmitting)
    => ENABLED (LvSubmit /\ lvPc' = "getUser")

PipelineStep ==
  (lvPc \in {"getUser", "geocode"} /\ lvPc' # lvPc)
    => /\ lvPc' \in {"geocode", "insert"}
       /\ lvPc' = "insert" =>
            \E coords \in {NULL, "geocoded"} : logHomeData(lvData, coords) \in lvInflight'

WarningAdvisory == []SubmissionOpen /\ [][PipelineStep]_vars

\* the insert of a pair is in flight while the warning about that very pair
\* is displayed
WarningAdvisoryWitness ==
  /\ duplicateWarning # NullText
  /\ \E req \in lvInflight :
       \E i \in lookupMatches([address |-> req.address, city_id |-> req.city_id]) :
         duplicateWarning = warningText(dbHomes[i])

\* ------------------------------------------------------------------------
\* C9: every insert request a log-visit form issues carries a city, a
\* non-empty street_name and address, and a result that is one of the seven
\* visit results: a submit attempt that lacks one of them sends nothing.
\* ------------------------------------------------------------------------
InsertsValidated ==
  \A req \in lvInflight \cup lgInflight :
    /\ req.city_id \notin {NULL, ""}
    /\ req.street_name # <<>>
    /\ req.address # <<>>
    /\ req.result \in VisitResults

\* ------------------------------------------------------------------------
\* C10: the contact section is shown exactly when result is 'Scheduled
\* Demo' or 'Interested - Call Back' and its inputs change only while it is
\* shown; a change of result leaves the contact values as they are; a
\* submission takes the values of the form as they are, and the insert
\* request carries the contact values of the submitted data.
\* ------------------------------------------------------------------------
ContactResults == {"Scheduled Demo", "Interested - Call Back"}

ContactShown == shouldShowContactFields <=> form.result \in ContactResults

PayloadHasContact ==
  \A req \in lvInflight :
    \A f \in ContactFields : req[f] = (IF lvData[f] # <<>> THEN lvData[f] ELSE NullText)

ContactStep ==
  /\ ((\E f \in ContactFields : form'[f] # form[f]) /\ lvPc' = lvPc)
       => form.result \in ContactResults
  /\ (form'.result # form.result /\ lvPc' = lvPc)
       => \A f \in ContactFields : form'[f] = form[f]
  /\ (lvPc = "idle" /\ lvPc' = "getUser") => lvData' = form

ContactKept == [](ContactShown /\ PayloadHasContact) /\ [][ContactStep]_vars

\* the insert request of a 'Not Home' visit carries the contact name typed
\* while the section was shown
ContactKeptWitness ==
  \E req \in lvInflight :
    /\ req.result = "Not Home"
    /\ req.contact_name = NameAb
    /\ form.result = "Not Home"
    /\ ~shouldShowContactFields

\* ------------------------------------------------------------------------
\* C11: with the fetched list and the filter values as they are, the list
\* shown under sort 'address_asc' is the exact reverse of the list shown
\* under sort 'address_desc', also when several homes share an address.
\* ------------------------------------------------------------------------
oppositeSort == IF sortBy = "address_asc" THEN "address_desc" ELSE "address_asc"

\* what the screen would show with the other address sort selected
underOppositeSort ==
  applyFilters(vhHomes, cityFilter, resultFilter, searchQuery, startDate, endDate,
               oppositeSort)

addressesOf(list) == [i \in DOMAIN list |-> list[i].address]

addressesDistinct(list) ==
  \A i, j \in DOMAIN list : i # j => list[i].address # list[j].address

rangeInverted ==
  startDate # <<>> /\ endDate # <<>> /\ lexCompare(startDate, endDate, codeUnit) > 0

InvertedRangeEmpty == rangeInverted => vhFilteredHomes = <<>>

\* homes were fetched and the range is inverted
InvertedRangeEmptyWitness ==
  rangeInverted /\ vhHomes # <<>> /\ ~vhIsLoading /\ vhFilteredHomes = <<>>

\* ------------------------------------------------------------------------
\* C13: when the text exported from a list of homes whose values contain no
\* comma, quote or newline is selected and parsed in ImportHomes, the parsed
\* rows are one per home and carry the home's address, street name and city
\* name.
\* ------------------------------------------------------------------------
plainText(v) == ~needsQuoting(v)

plainHomes(list) ==
  \A i \in DOMAIN list :
    /\ plainText(list[i].address)
    /\ plainText(list[i].street_name)
    /\ plainText(orEmpty(list[i].cities_name))

\* parseCSV has run on the selected file
fileParsed == file # NoFile /\ (parsedHomes # <<>> \/ impError # NULL)

ExportReimported ==
  (fileParsed /\ vhFilteredHomes # <<>> /\ file = <<csvContent(vhFilteredHomes)>>
     /\ plainHomes(vhFilteredHomes))
    => /\ Len(parsedHomes) = Len(vhFilteredHomes)
       /\ \A i \in DOMAIN parsedHomes :
            /\ parsedHomes[i].address = vhFilteredHomes[i].address
            /\ parsedHomes[i].street_name = vhFilteredHomes[i].street_name
            /\ parsedHomes[i].city_name = orEmpty(vhFilteredHomes[i].cities_name)

\* ------------------------------------------------------------------------
\* C14: under every addition and deletion of cities and subdivisions, every
\* subdivision of the store references a city of the store; a step that
\* deletes a city removes exactly the subdivisions of that city, and keeps
\* every home, whose reference to the city or to one of its subdivisions
\* becomes null while its other fields stay as they were.
\* ------------------------------------------------------------------------
storedCityIds == {c.id : c \in dbCities}
storedSubdivisionIds == {sd.id : sd \in dbSubdivisions}

SubdivisionsReferToCities == \A sd \in dbSubdivisions : sd.city_id \in storedCityIds

\* the reference fields of a home
homeReferences == {"city_id", "subdivision_id"}

CityDeleteStep ==
  \A id \in storedCityIds :
    (id \notin storedCityIds') =>
      LET gone == {sd.id : sd \in {x \in dbSubdivisions : x.city_id = id}}
      IN /\ dbSubdivisions' = {sd \in dbSubdivisions : sd.city_id # id}
         /\ Len(dbHomes') = Len(dbHomes)
         /\ \A i \in DOMAIN dbHomes :
              /\ \A f \in DOMAIN dbHomes[i] \ homeReferences : dbHomes'[i][f] = dbHomes[i][f]
              /\ dbHomes'[i].city_id = IF dbHomes[i].city_id = id THEN NULL ELSE dbHomes[i].city_id
              /\ dbHomes'[i].subdivision_id =
                   IF dbHomes[i].subdivision_id \in gone THEN NULL ELSE dbHomes[i].subdivision_id

ReferencesKept == [](SubdivisionsReferToCities) /\ [][CityDeleteStep]_vars

\* city c1 was deleted after a subdivision had been added to it: its
\* subdivisions are gone, and the homes that referenced it are kept with
\* null references
ReferencesKeptWitness ==
  /\ dbIds = 1
  /\ "c1" \notin storedCityIds
  /\ storedSubdivisionIds = {"s2"}
  /\ Len(dbHomes) = 3
  /\ dbHomes[1].city_id = NULL /\ dbHomes[1].subdivision_id = NULL
  /\ dbHomes[3].city_id = "c2" /\ dbHomes[3].subdivision_id = "s2"

\* ------------------------------------------------------------------------
\* C15: no store request is attempted again without a new user action: a
\* step in which a request fails leaves one request fewer awaiting an
\* answer, a page whose fetch failed is not fetching, and a step that sends
\* a request is a user action or the next stage of the operation the user
\* started, where an import sends each row once, after the rows before it
\* were answered, and a submit sends one insert.
\* ------------------------------------------------------------------------
\* the store requests awaiting an answer
pendingCount ==
  (IF vhFetch = "pending" THEN 1 ELSE 0)
    + Cardinality(lvInflight) + Cardinality(lgInflight)
    + (IF impPc \in {"cities", "subdivisions"} THEN 1 ELSE 0) + Cardinality(impInflight)
    + Cardinality(mlInflight) + Cardinality(noteInflight)

\* the user actions that send a request or start an operation
userRequest ==
  \/ VhMount
  \/ LvSubmit
  \/ LgSubmit
  \/ ImportStart
  \/ \E name \in NewCityNames : handleAddCity(name)
  \/ \E name \in NewSubdivisionNames : handleAddSubdivision(name)
  \/ handleDeleteCity
  \/ handleDeleteSubdivision
  \/ \E text \in NoteTexts : handleAddNote(text)
  \/ \E id \in NoteIds : handleDeleteNote(id)

\* the order of the stages of onSubmit and of importHomes
lvStages ==
  {<<"idle", "getUser">>, <<"getUser", "geocode">>, <<"getUser", "insert">>,
   <<"geocode", "insert">>, <<"insert", "idle">>}

impStages ==
  {<<"idle", "getUser">>, <<"getUser", "cities">>, <<"cities", "subdivisions">>,
   <<"cities", "idle">>, <<"subdivisions", "loop">>, <<"subdivisions", "idle">>,
   <<"loop", "await">>, <<"await", "loop">>, <<"loop", "idle">>}

AttemptedOnceStep ==
  /\ (faultsLeft' < faultsLeft) => pendingCount' = pendingCount - 1
  /\ (pendingCount' > pendingCount) =>
       (userRequest \/ lvPc \in {"getUser", "geocode"} \/ impPc \in {"getUser", "loop"})
  /\ (lvPc' # lvPc) => (<<lvPc, lvPc'>> \in lvStages /\ (lvPc = "idle" => LvSubmit))
  /\ (impPc' # impPc) => (<<impPc, impPc'>> \in impStages /\ (impPc = "idle" => ImportStart))
  /\ (lvInflight' \ lvInflight # {}) =>
       (lvInflight = {} /\ Cardinality(lvInflight') = 1 /\ lvPc # "insert" /\ lvPc' = "insert")
  /\ \A r \in impInflight' \ impInflight : impInflight = {} /\ r.row = Len(impLog) + 1
  /\ (Len(impLog') < Len(impLog)) => ImportStart

AttemptedOnce ==
  [](vhFetch = "pending" => vhError = NULL) /\ [][AttemptedOnceStep]_vars

\* requests that failed, each with nothing sent again: the insert of an
\* import row, after which the run went on and ended, or the page fetch
AttemptedOnceWitness ==
  \/ /\ faultsLeft < MaxFaults
     /\ \E i \in DOMAIN impLog : impLog[i] = "error"
     /\ importResults # NoResults
     /\ pendingCount = 0
  \/ /\ vhError # NULL
     /\ vhFetch = "none"
     /\ route = "/view-homes"
     /\ pendingCount = 0

\* ------------------------------------------------------------------------
\* C16: when the store rejects the insert of a log-visit submit because a
\* home with the same (address, city_id) pair exists, the submit ends
\* without an error shown to the user.
\* ------------------------------------------------------------------------
UniqueViolationStep ==
  \A req \in lvInflight :
    (lvPc = "insert" /\ lvPc' = "idle" /\ faultsLeft' = faultsLeft
       /\ insertErrorCode(req) = "23505")
      => lvError' = NULL

UniqueViolationSkipped == [][UniqueViolationStep]_vars

\* ------------------------------------------------------------------------
\* C17: a location lookup never throws or rejects; geocodeAddress returns
\* null when the API key is missing, the request fails, the response is not
\* ok, the status is not OK or there are no results, and getCurrentLocation
\* resolves to null when geolocation is unsupported or the position request
\* calls back with an error or a timeout.
\* ------------------------------------------------------------------------
geocodeFails(call) ==
  \/ call.apiKey = ""
  \/ call.answer.net # "ok"
  \/ call.answer.status # "OK"
  \/ call.answer.results # "some"

locationFails(call) ==
  ~call.answer.supported \/ call.answer.callback # "position"

LookupsFailAsValues ==
  lookup # NoLookup =>
    /\ ~lookup[1].outcome.thrown
    /\ (lookup[1].fn = "geocodeAddress" /\ geocodeFails(lookup[1]))
         => lookup[1].outcome.value = NULL
    /\ (lookup[1].fn = "getCurrentLocation" /\ locationFails(lookup[1]))
         => lookup[1].outcome.value = NULL

\* with the API key set, the response of the geocoding service was not ok
\* and the submit went on to its insert without coordinates
LookupsFailAsValuesWitness ==
  /\ lookup # NoLookup
  /\ lookup[1].fn = "geocodeAddress"
  /\ lookup[1].apiKey # ""
  /\ lookup[1].answer.net = "notOk"
  /\ lookup[1].outcome = returned(NULL)
  /\ lvPc = "insert"
  /\ lvCoords = NULL

\* ------------------------------------------------------------------------
\* C18: whichever variables of the environment are missing, the store
\* client is constructed and the application starts; the Dashboard shows
\* its configuration banner when the store endpoint or the store key is
\* missing, the Map component shows its warning when the key of the maps
\* service is missing; without store configuration no operation reaches the
\* store, a finished page fetch shows its error and a submit ends with its
\* error.
\* ------------------------------------------------------------------------
storeVariableMissing ==
  ~config["VITE_SUPABASE_URL"] \/ ~config["VITE_SUPABASE_ANON_KEY"]

storeWarnings(q) ==
  IF q.address = <<>> \/ q.city_id = "" \/ lookupMatches(q) = {}
  THEN {NullText}
  ELSE {warningText(dbHomes[i]) : i \in lookupMatches(q)}

LookupKeptStep == (form' # form) => dupLookups \subseteq dupLookups'

LookupAnsweredStep ==
  \A q \in dupLookups :
    (q \notin dupLookups' /\ faultsLeft' = faultsLeft) => duplicateWarning' \in storeWarnings(q)

StaleResponse == [][LookupKeptStep /\ LookupAnsweredStep]_vars

\* the form holds an address and a city, the timer of that pair has fired
\* and its lookup was answered, no lookup is pending, no request has failed
\* and nothing was submitted, yet the warning is not one the store gives for
\* the pair of the form: the answer for an earlier pair arrived last
StaleResponseWitness ==
  /\ form.address # <<>> /\ form.city_id # ""
  /\ dupTimer = {}
  /\ dupLookups = {}
  /\ faultsLeft = MaxFaults
  /\ ~lvSubmitted /\ lvPc = "idle" /\ ~lvSuccess
  /\ dbHomes = <<StoredHomeA, StoredHomeB>>
  /\ duplicateWarning \notin storeWarnings(watchedPair(form))

\* ------------------------------------------------------------------------
\* C20: at most one debounce timer is pending; a change of the watched
\* (address, city) pair replaces the pending timer by a timer for the new
\* pair and sends no lookup; a lookup is sent only by the pending timer, for
\* the pair the form still holds, one lookup per firing. A burst of changes
\* during which no timer fires thus sends no lookup until the timer of the
\* final pair fires.
\* ------------------------------------------------------------------------
OneTimer == Cardinality(dupTimer) <= 1

PairChangeStep ==
  (watchedPair(form') # watchedPair(form))
    => (dupTimer' = {watchedPair(form')} /\ dupLookups' \subseteq dupLookups)

LookupSentStep ==
  (dupLookups' \ dupLookups # {})
    => /\ dupLookups' \ dupLookups = {watchedPair(form)}
       /\ dupTimer = {watchedPair(form)}
       /\ dupTimer' = {}
       /\ form' = form

Debounced == []OneTimer /\ [][PairChangeStep /\ LookupSentStep]_vars

\* the address and the city of the form were both changed, one after the
\* other, before any timer fired: the only lookup sent is that of the final
\* pair, and no lookup of an earlier pair was sent or answered
DebouncedWitness ==
  /\ editsLeft = 0
  /\ form.result = "Scheduled Demo"
  /\ form.address = Addr2 /\ form.city_id = "c2"
  /\ dupTimer = {}
  /\ dupLookups = {watchedPair(form)}
  /\ duplicateWarning = NullText
  /\ faultsLeft = MaxFaults
\* ------------------------------------------------------------------------
\* C21: once a file is parsed, the parsed list holds, in file order, one
\* row for each non-blank line after the first non-blank line that has at
\* least 3 comma-separated fields and a non-empty trimmed first and third
\* field, with those fields as address and city; the first non-blank line
\* gives no row; an error is reported exactly when the file has no non-blank
\* line ('CSV file is empty') or no line gives a row, so a dropped line
\* alone reports nothing.
\* ------------------------------------------------------------------------
\* the lines a..b of the text that hold a token other than white space
nonBlankStretches(text) ==
  {s \in (1..Len(text)) \X (1..Len(text)) :
     /\ s[1] <= s[2]
     /\ \A k \in s[1]..s[2] : text[k] # Newline
     /\ (s[1] = 1 \/ text[s[1] - 1] = Newline)
     /\ (s[2] = Len(text) \/ text[s[2] + 1] = Newline)
     /\ \E k \in s[1]..s[2] : text[k] \notin WhiteSpace}

commasUpTo(text, s, p) == Cardinality({c \in s[1]..p : text[c] = Comma})

\* the k-th comma-separated field of line s, without the white space around
strippedField(text, s, k) ==
  LET ps == {p \in s[1]..s[2] :
               /\ text[p] \notin WhiteSpace \cup {Comma}
               /\ commasUpTo(text, s, p) = k - 1}
  IN IF ps = {} THEN <<>>
     ELSE SubSeq(text, CHOOSE p \in ps : \A r \in ps : p <= r,
                       CHOOSE p \in ps : \A r \in ps : p >= r)

\* the lines that give a row
rowStretches(text) ==
  {s \in nonBlankStretches(text) :
     /\ \E t \in nonBlankStretches(text) : t[1] < s[1]
     /\ commasUpTo(text, s, s[2]) + 1 >= 3
     /\ strippedField(text, s, 1) # <<>>
     /\ strippedField(text, s, 3) # <<>>}

CsvRowsParsed ==
  fileParsed =>
    LET text == file[1]
        rows == rowStretches(text)
    IN /\ Len(parsedHomes) = Cardinality(rows)
       /\ \A i \in DOMAIN parsedHomes :
            \E s \in rows :
              /\ Cardinality({t \in rows : t[1] < s[1]}) = i - 1
              /\ parsedHomes[i].address = strippedField(text, s, 1)
              /\ parsedHomes[i].street_name = strippedField(text, s, 2)
              /\ parsedHomes[i].city_name = strippedField(text, s, 3)
       /\ impError # NULL <=> (nonBlankStretches(text) = {} \/ rows = {})
       /\ nonBlankStretches(text) = {} => impError = "CSV file is empty"

\* a file of four lines was parsed into two rows without an error: its
\* first line has the form of a row and gave none, and one line was dropped
CsvRowsParsedWitness ==
  /\ fileParsed
  /\ impError = NULL
  /\ Len(parsedHomes) = 2
  /\ parsedHomes[1].address # parsedHomes[2].address
  /\ Cardinality(nonBlankStretches(file[1])) = 4
  /\ \E s \in nonBlankStretches(file[1]) \ rowStretches(file[1]) :
       /\ s[1] = 1
       /\ strippedField(file[1], s, 1) # <<>>
       /\ strippedField(file[1], s, 3) # <<>>
\* ------------------------------------------------------------------------
\* C22: an export of a non-empty list produces a text that a reader of
\* quoted CSV takes apart into the header record and one record per home in
\* list order, each of 13 fields with the values exported; a field is
\* quoted, its quotes doubled, exactly when its value holds a comma, a
\* double quote or a newline, and stands as it is otherwise; an export of an
\* empty list produces no file, and nothing else produces one.
\* ------------------------------------------------------------------------
\* a token is outside quotes when an even number of quotes comes before it:
\* a quote opens or closes a field, and a doubled quote inside does both
outsideQuotes(text, p) == Cardinality({q \in 1..(p - 1) : text[q] = Quote}) % 2 = 0

separatorsOf(text, sep) == {p \in DOMAIN text : text[p] = sep /\ outsideQuotes(text, p)}

\* the stretches of the text between the positions of `cuts`, in order
piecesOf(text, cuts) ==
  LET n == Cardinality(cuts)
      nth(k) == CHOOSE p \in cuts : Cardinality({q \in cuts : q < p}) = k - 1
      lo(k) == IF k = 1 THEN 1 ELSE nth(k - 1) + 1
      hi(k) == IF k = n + 1 THEN Len(text) ELSE nth(k) - 1
  IN [k \in 1..(n + 1) |-> SubSeq(text, lo(k), hi(k))]

\* a doubled quote stands for one quote
RECURSIVE undoubled(_)
undoubled(inner) ==
  IF inner = <<>> THEN <<>>
  ELSE IF Len(inner) >= 2 /\ inner[1] = Quote /\ inner[2] = Quote
  THEN <<Quote>> \o undoubled(SubSeq(inner, 3, Len(inner)))
  ELSE <<inner[1]>> \o undoubled(Tail(inner))

\* a field as a reader of quoted CSV takes it: its value, and whether it
\* was written in quotes
cellOf(field) ==
  IF Len(field) >= 2 /\ field[1] = Quote /\ field[Len(field)] = Quote
  THEN [value |-> undoubled(SubSeq(field, 2, Len(field) - 1)), quoted |-> TRUE]
  ELSE [value |-> field, quoted |-> FALSE]

recordsOf(text) ==
  LET lines == piecesOf(text, separatorsOf(text, Newline))
  IN [r \in DOMAIN lines |->
        LET fields == piecesOf(lines[r], separatorsOf(lines[r], Comma))
        IN [k \in DOMAIN fields |-> cellOf(fields[k])]]

holdsSeparator(value) == \E i \in DOMAIN value : value[i] \in {",", "\"", "\n"}

\* the values exported for a list: the header names, then each home's
exportedValues(list) == <<csvHeaders>> \o [i \in DOMAIN list |-> exportRow(list[i])]

encodes(text, list) ==
  LET records == recordsOf(text)
      values == exportedValues(list)
  IN /\ Len(records) = 1 + Len(list)
     /\ \A r \in DOMAIN records :
          /\ Len(records[r]) = 13
          /\ \A k \in 1..13 :
               /\ records[r][k].value = values[r][k]
               /\ records[r][k].quoted <=> holdsSeparator(values[r][k])

ExportStep ==
  /\ exportToCSV =>
       IF vhFilteredHomes = <<>> THEN download' = download
       ELSE download' # NoFile /\ encodes(download'[1], vhFilteredHomes)
  /\ (download' # download) => exportToCSV

ExportEncoded == [][ExportStep]_vars

\* two homes are shown and were exported: the text has three records, and
\* among its fields a street with a comma, notes with quotes and notes of
\* two lines
ExportEncodedWitness ==
  /\ download # NoFile
  /\ Len(vhFilteredHomes) = 2
  /\ download = <<csvContent(vhFilteredHomes)>>
  /\ Len(recordsOf(download[1])) = 3
  /\ \E r \in 2..3 : recordsOf(download[1])[r][3] = [value |-> StreetComma, quoted |-> TRUE]
  /\ \E r \in 2..3 : recordsOf(download[1])[r][10] = [value |-> NotesQuoted, quoted |-> TRUE]
  /\ \E r \in 2..3 : recordsOf(download[1])[r][10] = [value |-> NotesTwoLines, quoted |-> TRUE]
\* ------------------------------------------------------------------------
\* C23: the screens only read the homes and insert homes: a step changes
\* the stored homes either by appending the home of an insert request that
\* was awaiting its answer, with every home stored before left as it was,
\* or through the answer to a city or subdivision delete, which keeps every
\* home; in both cases the address, street_name, result, contact fields,
\* notes and date_visited of every stored home stay as they were.
\* ------------------------------------------------------------------------
FrozenFields ==
  {"address", "street_name", "result", "contact_name", "phone_number",
   "follow_up_date", "notes", "date_visited"}

insertsAwaited == lvInflight \cup lgInflight \cup {r.data : r \in impInflight}

HomesStep ==
  /\ Len(dbHomes') \in {Len(dbHomes), Len(dbHomes) + 1}
  /\ \A i \in DOMAIN dbHomes : \A f \in FrozenFields : dbHomes'[i][f] = dbHomes[i][f]
  /\ Len(dbHomes') = Len(dbHomes) + 1 =>
       /\ \A i \in DOMAIN dbHomes : dbHomes'[i] = dbHomes[i]
       /\ dbHomes'[Len(dbHomes')] \in insertsAwaited
  /\ (Len(dbHomes') = Len(dbHomes) /\ dbHomes' # dbHomes) =>
       \E req \in deletesInFlight : req \notin mlInflight'

HomesInsertOnly == [][HomesStep]_vars

\* a home logged from the form and a home imported are stored, and the city
\* of one of them was deleted afterwards: the home is kept without its city
HomesInsertOnlyWitness ==
  /\ Len(dbHomes) >= 2
  /\ \E i \in DOMAIN dbHomes : isImported(dbHomes[i])
  /\ \E i \in DOMAIN dbHomes :
       /\ ~isImported(dbHomes[i])
       /\ dbHomes[i].city_id = NULL
       /\ dbHomes[i].address = Addr1
       /\ dbHomes[i].contact_name = NameAb
\* ------------------------------------------------------------------------
\* C24: the insert request of an import row carries a subdivision only if
\* the store holds, in the city the row resolved to, a subdivision of the
\* row's name compared without case, and then it carries one of those; when
\* there is none the request is sent all the same, without a subdivision,
\* and unless the store rejects it the home is stored; every stored home of
\* an import that has a subdivision has one of the home's own city.
\* ------------------------------------------------------------------------
\* the subdivisions of city cityId that carry the row's subdivision name
subdivisionsNamed(row, cityId) ==
  {sd \in dbSubdivisions :
     /\ sd.city_id = cityId
     /\ row.subdivision_name # NullText
     /\ toLowerCase(sd.name) = toLowerCase(row.subdivision_name)}

SubdivisionWithinCity ==
  /\ \A req \in impInflight :
       LET named == subdivisionsNamed(parsedHomes[req.row], req.data.city_id)
       IN IF named = {} THEN req.data.subdivision_id = NULL
          ELSE req.data.subdivision_id \in {sd.id : sd \in named}
  /\ \A i \in DOMAIN dbHomes :
       (isImported(dbHomes[i]) /\ dbHomes[i].subdivision_id # NULL)
         => \E sd \in dbSubdivisions :
              sd.id = dbHomes[i].subdivision_id /\ sd.city_id = dbHomes[i].city_id

SubdivisionStep ==
  /\ (impPc = "loop" /\ impIdx <= Len(parsedHomes) /\ ~cityUnknown(parsedHomes[impIdx])
        /\ impPc' # impPc)
       => \E req \in impInflight' : req.row = impIdx
  /\ \A req \in impInflight :
       (req \notin impInflight' /\ faultsLeft' = faultsLeft /\ insertErrorCode(req.data) = NULL)
         => dbHomes' = Append(dbHomes, req.data) /\ successCount' = successCount + 1

SubdivisionResolved == []SubdivisionWithinCity /\ [][SubdivisionStep]_vars

\* subdivision s2 of city c2 was deleted before the run, s1 of city c1
\* carries the same name: the row of city c2 that names it was stored by the
\* run as a home of c2 without a subdivision
SubdivisionResolvedWitness ==
  /\ isImporting
  /\ storedSubdivisionIds = {"s1"}
  /\ "c2" \in storedCityIds
  /\ impLog # <<>>
  /\ impLog[Len(impLog)] = "ok"
  /\ parsedHomes[Len(impLog)].subdivision_name = SubNameLower
  /\ Len(dbHomes) > impStartLen
  /\ dbHomes[Len(dbHomes)].city_id = "c2"
  /\ dbHomes[Len(dbHomes)].subdivision_id = NULL
  /\ isImported(dbHomes[Len(dbHomes)])
\* ------------------------------------------------------------------------
\* C25: a submit with a pinned location goes to its insert without asking
\* the geocoder, and its request carries the latitude and longitude of the
\* pinned position; a submit without one asks the geocoder once, then sends
\* its insert; a request built without coordinates carries null latitude,
\* longitude and location_pinned_at, and location_pinned_at is set exactly
\* when coordinates were obtained.
\* ------------------------------------------------------------------------
CoordinatesStep ==
  /\ (lvPc = "getUser" /\ lvPc' # lvPc /\ location # NULL)
       => /\ lvPc' = "insert"
          /\ \E req \in lvInflight' :
               /\ req.latitude = Positions[location].lat
               /\ req.longitude = Positions[location].lng
  /\ (lvPc = "getUser" /\ lvPc' # lvPc /\ location = NULL) => lvPc' = "geocode"
  /\ (lvPc = "geocode" /\ lvPc' # lvPc) => lvPc' = "insert"

CoordinatesCarried ==
  \A req \in lvInflight :
    /\ lvCoords = NULL
         => (req.latitude = NULL /\ req.longitude = NULL /\ req.location_pinned_at = NULL)
    /\ req.location_pinned_at # NULL <=> lvCoords # NULL

CoordinatesStored == []CoordinatesCarried /\ [][CoordinatesStep]_vars
\* ------------------------------------------------------------------------
\* C26: an import run that has started ends: isImporting is false again at
\* some later point; a run whose fetch of the cities or of the subdivisions
\* fails ends at once with the error set and importResults as it was, and a
\* run that ended with the error has sent no insert request, handled no row
\* and stored nothing.
\* ------------------------------------------------------------------------
PrefetchFailStep ==
  (impPc \in {"cities", "subdivisions"} /\ faultsLeft' < faultsLeft)
    => /\ impError' # NULL
       /\ ~isImporting'
       /\ impPc' = "idle"
       /\ importResults' = importResults
       /\ impInflight' = {}
       /\ dbHomes' = dbHomes

NothingSentOnError ==
  /\ impPc \in {"getUser", "cities", "subdivisions"} => (impInflight = {} /\ impLog = <<>>)
  /\ impError # NULL =>
       /\ ~isImporting
       /\ impInflight = {}
       /\ impLog = <<>>
       /\ Len(dbHomes) = impStartLen

RunEnds ==
  /\ isImporting ~> ~isImporting
  /\ []NothingSentOnError
  /\ [][PrefetchFailStep]_vars

\* the fetch of the subdivisions failed after the cities had arrived: the
\* run is over with its error, without results and with nothing stored
RunEndsWitness ==
  /\ impError # NULL
  /\ ~isImporting
  /\ cityMap # EmptyMap
  /\ subdivisionMap = EmptyMap
  /\ importResults = NoResults
  /\ faultsLeft < MaxFaults
  /\ Len(dbHomes) = impStartLen
\* ------------------------------------------------------------------------
\* C27: whenever no request of ManageLocations awaits its answer, the
\* cities listed are exactly the cities of the store and the subdivisions
\* listed exactly its subdivisions, each once, however the requests sent
\* from the page overlapped.
\* ------------------------------------------------------------------------
listsStore(list, rows) ==
  /\ {[id |-> list[i].id, name |-> list[i].name] : i \in DOMAIN list}
       = {[id |-> r.id, name |-> r.name] : r \in rows}
  /\ Len(list) = Cardinality(rows)

LocalListsAgree ==
  mlInflight = {} => (listsStore(mlCities, dbCities) /\ listsStore(mlSubdivisions, dbSubdivisions))
\* ------------------------------------------------------------------------
\* C28: every home the earlier LogVisit form submits has subdivision_id
\* null or the id of a subdivision of the submitted city, whatever edits
\* came before, a change of the city after choosing a subdivision included.
\* ------------------------------------------------------------------------
SubdivisionOfCity ==
  \A req \in lgInflight :
    \/ req.subdivision_id = NULL
    \/ \E sd \in dbSubdivisions : sd.id = req.subdivision_id /\ sd.city_id = req.city_id
\* ------------------------------------------------------------------------
\* C29: once the filter effect has run, every home of the fetched list that
\* satisfies each predicate whose value is non-empty occurs in filteredHomes
\* exactly once and nothing occurs twice, so that with every predicate
\* empty filteredHomes is a permutation of the fetched list; and a change
\* of a predicate or of the sort order leaves the fetched list as it was.
\* ------------------------------------------------------------------------
passesFilters(h) ==
  /\ cityFilter # <<>> => h.cities_name = cityFilter
  /\ resultFilter # "" => h.result = resultFilter
  /\ searchQuery # <<>> =>
       \/ containsIgnoringCase(h.address, searchQuery)
       \/ containsIgnoringCase(h.street_name, searchQuery)
       \/ h.contact_name # NullText /\ containsIgnoringCase(h.contact_name, searchQuery)
  /\ startDate # <<>> => ~(lexCompare(h.date_visited, startDate, codeUnit) < 0)
  /\ endDate # <<>> => ~(lexCompare(h.date_visited, endDate, codeUnit) > 0)

placesOf(list, h) == {k \in DOMAIN list : list[k] = h}

noPredicate ==
  cityFilter = <<>> /\ resultFilter = "" /\ searchQuery = <<>> /\ startDate = <<>> /\ endDate = <<>>

FilteredHolds ==
  /\ \A i \in DOMAIN vhHomes :
       passesFilters(vhHomes[i]) => Cardinality(placesOf(vhFilteredHomes, vhHomes[i])) = 1
  /\ \A k \in DOMAIN vhFilteredHomes :
       Cardinality(placesOf(vhFilteredHomes, vhFilteredHomes[k])) = 1
  /\ noPredicate =>
       /\ Len(vhFilteredHomes) = Len(vhHomes)
       /\ Range(vhFilteredHomes) = Range(vhHomes)

predicatesAndSort == <<cityFilter, resultFilter, searchQuery, startDate, endDate, sortBy>>

FetchedListKept ==
  (predicatesAndSort' # predicatesAndSort /\ vhFetch' = vhFetch) => vhHomes' = vhHomes

FilteredComplete == []FilteredHolds /\ [][FetchedListKept]_vars

\* a search text active, both fetched homes pass it and are shown in the
\* other order than fetched
FilteredCompleteWitness ==
  /\ searchQuery # <<>>
  /\ Len(vhHomes) = 2
  /\ Len(vhFilteredHomes) = 2
  /\ vhFilteredHomes[1] = vhHomes[2]
\* ------------------------------------------------------------------------
\* C30: when the insert of the LogVisit form is answered, isSubmitting is
\* false again; after a failure (nothing stored) an error message is set,
\* success is false, the form values and the pinned location are what they
\* were and no redirect is scheduled; after a success success is set, the
\* form and the pinned location are cleared and one redirect is scheduled.
\* No other step schedules a redirect.
\* ------------------------------------------------------------------------
insertAnswered == lvPc = "insert" /\ lvPc' = "idle"

SubmitOutcome ==
  IF insertAnswered
  THEN /\ lvIsSubmitting' = FALSE
       /\ IF Len(dbHomes') = Len(dbHomes)
          THEN /\ lvError' # NULL
               /\ lvSuccess' = FALSE
               /\ form' = form
               /\ location' = location
               /\ lvRedirect' = lvRedirect
          ELSE /\ lvSuccess' = TRUE
               /\ form' = EmptyForm
               /\ location' = NULL
               /\ lvRedirect' = lvRedirect + 1
  ELSE lvRedirect' = lvRedirect

SubmitOutcomes == [][SubmitOutcome]_vars

\* a submission with a pinned location has failed: the form and the pin
\* are still there and nothing is scheduled
SubmitOutcomesWitness ==
  /\ lvPc = "idle"
  /\ lvError # NULL
  /\ ~lvSuccess
  /\ ~lvIsSubmitting
  /\ form # EmptyForm
  /\ location # NULL
  /\ lvRedirect = 0

====
